---- MODULE Spec2Model ----
(***************************************************************************)
(* A model of the stable-swap program's state processor                    *)
(* (src/src/processor.rs): the pool record (SwapInfo), the token accounts  *)
(* and the pool mint it works on, and its four instructions initialize,    *)
(* swap, deposit and withdraw, each run through do_process_instruction,    *)
(* which commits the accounts only when the instruction succeeds.          *)
(*                                                                         *)
(* The curve (StableSwap, PoolTokenConverter), SwapInfo::unpack and the    *)
(* u64/u128 helpers live in files that are not part of src/; they are      *)
(* modelled from the specification's sections 4.1-4.3 and are marked so.   *)
(*                                                                         *)
(* u64 is modelled by the range 0..U64_MAX with a scaled-down U64_MAX;     *)
(* u128 values stay far below 2^128 for the amounts explored, so u128      *)
(* arithmetic is exact integer arithmetic, except that a subtraction that  *)
(* would go below zero and a division by zero are outcomes of their own.   *)
(*                                                                         *)
(* Spec explores the processor with its validation on small reserves.      *)
(* SpecCurve explores the computations of initialize, swap and deposit on  *)
(* a grid of reserves, on thin pools and on the pool of tests::test_swap   *)
(* (amp 85, reserves 5000 and 5000, trade fee 6/100), with u64 at its full *)
(* width.                                                                  *)
(***************************************************************************)
EXTENDS Integers, Sequences, FiniteSets, TLC

VARIABLES swap_info, accounts, mints, last

vars == <<swap_info, accounts, mints, last>>

(***************************************************************************)
(* Bounds of the model.                                                    *)
(***************************************************************************)
\* the largest u64 of the model (stands for 2^64 - 1)
U64_MAX == 7
\* the largest amount argument of an instruction
MaxAmount == 2
\* the tokens of each kind the user holds at the start
UserFunds == 1
\* the mean of the two reserves the pool is created with
InitReserve == 3

(***************************************************************************)
(* Helpers (helpers.rs, Option/Result).                                    *)
(***************************************************************************)
\* Option::None / a failed checked operation
None == -1

Abs(x) == IF x < 0 THEN -x ELSE x

\* helpers::to_u128: total on u64
to_u128(x) == x

\* helpers::to_u64: ConversionFailure (None) above the largest u64
to_u64(x) == IF x >= 0 /\ x <= U64_MAX THEN x ELSE None

\* quotient and remainder of a * b by c, by halving b: the product is never
\* formed, so that it may be as wide as a u128 product
RECURSIVE mul_div_rem(_, _, _)
mul_div_rem(a, b, c) ==
    IF b = 0 THEN <<0, 0>>
    ELSE LET h == mul_div_rem(a, b \div 2, c)
             r == 2 * h[2] + (b % 2) * (a % c)
         IN  <<2 * h[1] + (b % 2) * (a \div c) + r \div c, r % c>>

\* a * b / c in u128: the product, then the truncating division
mul_div(a, b, c) ==
    IF b = 0 \/ a <= 2147483647 \div b THEN (a * b) \div c
    ELSE mul_div_rem(a, b, c)[1]

(***************************************************************************)
(* StableSwap (curve.rs), from the specification, section 4.2.             *)
(***************************************************************************)
N_COINS == 2
MAX_ITERATIONS == 256

\* StableSwap::new: amp >= 1, else CalculationFailure
StableSwap_new(amp_factor) == IF amp_factor >= 1 THEN amp_factor ELSE None

\* one Newton step of D; None on a zero divisor
compute_d_next(amp, amount_a, amount_b, d) ==
    IF amount_a = 0 \/ amount_b = 0 THEN None
    ELSE LET sum_x == amount_a + amount_b
             d_p1  == (d * d) \div (amount_a * N_COINS)
             d_p   == (d_p1 * d) \div (amount_b * N_COINS)
             num   == amp * N_COINS * sum_x + d_p * N_COINS
             den   == (amp * N_COINS - 1) * d + (N_COINS + 1) * d_p
         IN  IF den <= 0 THEN None ELSE mul_div(num, d, den)

\* n iterations of the loop from s = [d, done], done once an iteration has
\* converged or failed; the iterations are run as two halves, which keeps the
\* evaluation shallow, and the step d_next is bound once, as the one element
\* of a set
RECURSIVE compute_d_loop(_, _, _, _, _)
compute_d_loop(amp, amount_a, amount_b, s, n) ==
    IF s.done \/ n = 0 THEN s
    ELSE IF n = 1
         THEN CHOOSE next \in
                  {IF d_next = None THEN [d |-> None, done |-> TRUE]
                   ELSE [d |-> d_next, done |-> Abs(d_next - s.d) <= 1] :
                      d_next \in {compute_d_next(amp, amount_a, amount_b, s.d)}} : TRUE
    ELSE LET half == compute_d_loop(amp, amount_a, amount_b, s, n \div 2)
         IN  compute_d_loop(amp, amount_a, amount_b, half, n - n \div 2)

\* the invariant D of reserves (amount_a, amount_b); None when it has no value
compute_d(amp, amount_a, amount_b) ==
    IF amount_a + amount_b = 0 THEN 0
    ELSE LET s == compute_d_loop(amp, amount_a, amount_b,
                                 [d |-> amount_a + amount_b, done |-> FALSE],
                                 MAX_ITERATIONS)
         IN  IF s.done THEN s.d ELSE None

\* one Newton step of y; None on a zero or negative divisor
compute_y_next(amp, x, d, y) ==
    IF x = 0 \/ amp = 0 THEN None
    ELSE LET c   == mul_div(d * d, d, N_COINS * N_COINS * amp * x * N_COINS)
             b   == x + d \div (amp * N_COINS)
             den == 2 * y + b - d
         IN  IF den <= 0 THEN None ELSE (y * y + c) \div den

\* n iterations of the loop from s = [y, done], as in compute_d_loop
RECURSIVE compute_y_loop(_, _, _, _, _)
compute_y_loop(amp, x, d, s, n) ==
    IF s.done \/ n = 0 THEN s
    ELSE IF n = 1
         THEN CHOOSE next \in
                  {IF y_next = None THEN [y |-> None, done |-> TRUE]
                   ELSE [y |-> y_next, done |-> Abs(y_next - s.y) <= 1] :
                      y_next \in {compute_y_next(amp, x, d, s.y)}} : TRUE
    ELSE LET half == compute_y_loop(amp, x, d, s, n \div 2)
         IN  compute_y_loop(amp, x, d, half, n - n \div 2)

\* the counter-balance y of x at invariant d
compute_y(amp, x, d) ==
    LET s == compute_y_loop(amp, x, d, [y |-> d, done |-> FALSE], MAX_ITERATIONS)
    IN  IF s.done THEN s.y ELSE None

\* swap_fee, but the quotient is rounded up
swap_fee_rounded_up(gross_out, fee_numerator, fee_denominator) ==
    IF fee_numerator = 0 THEN 0
    ELSE IF fee_denominator = 0 THEN None
    ELSE (gross_out * fee_numerator + fee_denominator - 1) \div fee_denominator

\* the fee on a gross output; None when it cannot be computed.  The quotient
\* is truncated: tests::test_swap (processor.rs:2993-3015) has a gross output
\* of 101 at a fee of 6/100 pay 95, a fee of 6 and not of 7.
swap_fee(gross_out, fee_numerator, fee_denominator) ==
    IF fee_numerator = 0 THEN 0
    ELSE IF fee_denominator = 0 THEN None
    ELSE (gross_out * fee_numerator) \div fee_denominator

\* Option<SwapResult>
NoSwapResult ==
    [some |-> FALSE, new_source_amount |-> 0, new_destination_amount |-> 0,
     amount_swapped |-> 0]

\* StableSwap::swap_to
swap_to(amp, source_amount, swap_source_amount, swap_destination_amount, fee_numerator, fee_denominator) ==
    LET d     == compute_d(amp, swap_source_amount, swap_destination_amount)
        new_x == swap_source_amount + source_amount
        new_y == IF d = None THEN None ELSE compute_y(amp, new_x, d)
        gross == swap_destination_amount - new_y
        fee   == swap_fee(gross, fee_numerator, fee_denominator)
    IN  IF d = None \/ new_y = None THEN NoSwapResult
        ELSE IF gross < 1 THEN NoSwapResult
        ELSE IF fee = None \/ fee > gross THEN NoSwapResult
        ELSE [some                   |-> TRUE,
              new_source_amount      |-> new_x,
              new_destination_amount |-> swap_destination_amount - (gross - fee),
              amount_swapped         |-> gross - fee]

(***************************************************************************)
(* PoolTokenConverter (curve.rs), from the specification, section 4.3.     *)
(***************************************************************************)
PoolTokenConverter_new(supply, token_a, token_b) ==
    [supply |-> supply, token_a |-> token_a, token_b |-> token_b]

token_a_rate(converter, pool_tokens) ==
    IF converter.supply = 0 THEN None
    ELSE (pool_tokens * converter.token_a) \div converter.supply

token_b_rate(converter, pool_tokens) ==
    IF converter.supply = 0 THEN None
    ELSE (pool_tokens * converter.token_b) \div converter.supply

(***************************************************************************)
(* Keys, accounts and the pool record.                                     *)
(***************************************************************************)
\* the program address of the pool and the nonce that derives it
AUTHORITY == "authority"
NONCE == 1
USER == "user"
NO_KEY == "none"

\* the fee configuration: the trade fee varies, the rest is DEFAULT_TEST_FEES
Fees(trade_fee_numerator, trade_fee_denominator) ==
    [admin_trade_fee_numerator      |-> 1,
     admin_trade_fee_denominator    |-> 1,
     admin_withdraw_fee_numerator   |-> 1,
     admin_withdraw_fee_denominator |-> 1,
     trade_fee_numerator            |-> trade_fee_numerator,
     trade_fee_denominator          |-> trade_fee_denominator,
     withdraw_fee_numerator         |-> 1,
     withdraw_fee_denominator       |-> 1]

ZeroFees ==
    [admin_trade_fee_numerator      |-> 0,
     admin_trade_fee_denominator    |-> 0,
     admin_withdraw_fee_numerator   |-> 0,
     admin_withdraw_fee_denominator |-> 0,
     trade_fee_numerator            |-> 0,
     trade_fee_denominator          |-> 0,
     withdraw_fee_numerator         |-> 0,
     withdraw_fee_denominator       |-> 0]

\* the zeroed data of a freshly created swap account
EmptySwapInfo ==
    [is_initialized      |-> FALSE,
     nonce               |-> 0,
     amp_factor          |-> 0,
     token_a             |-> NO_KEY,
     token_b             |-> NO_KEY,
     pool_mint           |-> NO_KEY,
     token_a_mint        |-> NO_KEY,
     token_b_mint        |-> NO_KEY,
     admin_fee_account_a |-> NO_KEY,
     admin_fee_account_b |-> NO_KEY,
     fees                |-> ZeroFees]

TokenAccount(mint, owner, amount, delegate) ==
    [mint |-> mint, owner |-> owner, amount |-> amount, delegate |-> delegate]

\* the accounts SwapAccountInfo::new and setup_token_accounts create: the two
\* reserves and the admin fee accounts belong to the pool authority, the
\* others to the user, who has approved the authority as their delegate
InitialAccounts(token_a_amount, token_b_amount) ==
    [k \in {"token_a", "token_b", "admin_fee_a", "admin_fee_b",
            "pool_token", "user_a", "user_b", "user_pool"} |->
        CASE k = "token_a"     -> TokenAccount("mint_a", AUTHORITY, token_a_amount, NO_KEY)
          [] k = "token_b"     -> TokenAccount("mint_b", AUTHORITY, token_b_amount, NO_KEY)
          [] k = "admin_fee_a" -> TokenAccount("mint_a", AUTHORITY, 0, NO_KEY)
          [] k = "admin_fee_b" -> TokenAccount("mint_b", AUTHORITY, 0, NO_KEY)
          [] k = "pool_token"  -> TokenAccount("pool_mint", USER, 0, AUTHORITY)
          [] k = "user_a"      -> TokenAccount("mint_a", USER, UserFunds, AUTHORITY)
          [] k = "user_b"      -> TokenAccount("mint_b", USER, UserFunds, AUTHORITY)
          [] k = "user_pool"   -> TokenAccount("pool_mint", USER, 0, AUTHORITY)]

InitialMints(token_a_amount, token_b_amount) ==
    [k \in {"mint_a", "mint_b", "pool_mint"} |->
        CASE k = "mint_a"    -> [supply |-> token_a_amount + UserFunds, mint_authority |-> USER]
          [] k = "mint_b"    -> [supply |-> token_b_amount + UserFunds, mint_authority |-> USER]
          [] k = "pool_mint" -> [supply |-> 0, mint_authority |-> AUTHORITY]]

\* the accounts an instruction works on
World == [swap_info |-> swap_info, accounts |-> accounts, mints |-> mints]

(***************************************************************************)
(* The token program, as the processor uses it through invoke_signed.      *)
(***************************************************************************)
Ok(w) == [res |-> "Ok", w |-> w]
Fail(e, w) == [res |-> e, w |-> w]

MayMove(account) == account.owner = AUTHORITY \/ account.delegate = AUTHORITY

\* token_transfer, but the source keeps what it sends
token_transfer_keep_source(w, source, destination, amount) ==
    IF source \notin DOMAIN w.accounts \/ destination \notin DOMAIN w.accounts
    THEN Fail("InvalidAccountData", w)
    ELSE LET src == w.accounts[source]
             dst == w.accounts[destination]
         IN  IF src.amount < amount THEN Fail("InsufficientFunds", w)
             ELSE IF src.mint # dst.mint THEN Fail("MintMismatch", w)
             ELSE IF ~MayMove(src) THEN Fail("OwnerMismatch", w)
             ELSE IF source = destination THEN Ok(w)
             ELSE IF dst.amount + amount > U64_MAX THEN Fail("Overflow", w)
             ELSE Ok([w EXCEPT !.accounts[destination].amount = @ + amount])

\* Processor::token_transfer
token_transfer(w, source, destination, amount) ==
    IF source \notin DOMAIN w.accounts \/ destination \notin DOMAIN w.accounts
    THEN Fail("InvalidAccountData", w)
    ELSE LET src == w.accounts[source]
             dst == w.accounts[destination]
         IN  IF src.amount < amount THEN Fail("InsufficientFunds", w)
             ELSE IF src.mint # dst.mint THEN Fail("MintMismatch", w)
             ELSE IF ~MayMove(src) THEN Fail("OwnerMismatch", w)
             ELSE IF source = destination THEN Ok(w)
             ELSE IF dst.amount + amount > U64_MAX THEN Fail("Overflow", w)
             ELSE Ok([w EXCEPT !.accounts[source].amount = @ - amount,
                               !.accounts[destination].amount = @ + amount])

\* Processor::token_mint_to
token_mint_to(w, mint, destination, amount) ==
    IF mint \notin DOMAIN w.mints \/ destination \notin DOMAIN w.accounts
    THEN Fail("InvalidAccountData", w)
    ELSE LET dst == w.accounts[destination]
         IN  IF dst.mint # mint THEN Fail("MintMismatch", w)
             ELSE IF w.mints[mint].mint_authority # AUTHORITY THEN Fail("OwnerMismatch", w)
             ELSE IF dst.amount + amount > U64_MAX
                     \/ w.mints[mint].supply + amount > U64_MAX
                  THEN Fail("Overflow", w)
             ELSE Ok([w EXCEPT !.accounts[destination].amount = @ + amount,
                               !.mints[mint].supply = @ + amount])

\* token_burn, but the supply of the mint stays as it was
token_burn_keep_supply(w, burn_account, mint, amount) ==
    IF mint \notin DOMAIN w.mints \/ burn_account \notin DOMAIN w.accounts
    THEN Fail("InvalidAccountData", w)
    ELSE LET src == w.accounts[burn_account]
         IN  IF src.amount < amount THEN Fail("InsufficientFunds", w)
             ELSE IF src.mint # mint THEN Fail("MintMismatch", w)
             ELSE IF ~MayMove(src) THEN Fail("OwnerMismatch", w)
             ELSE Ok([w EXCEPT !.accounts[burn_account].amount = @ - amount])

\* Processor::token_burn
token_burn(w, burn_account, mint, amount) ==
    IF mint \notin DOMAIN w.mints \/ burn_account \notin DOMAIN w.accounts
    THEN Fail("InvalidAccountData", w)
    ELSE LET src == w.accounts[burn_account]
         IN  IF src.amount < amount THEN Fail("InsufficientFunds", w)
             ELSE IF src.mint # mint THEN Fail("MintMismatch", w)
             ELSE IF ~MayMove(src) THEN Fail("OwnerMismatch", w)
             ELSE Ok([w EXCEPT !.accounts[burn_account].amount = @ - amount,
                               !.mints[mint].supply = @ - amount])

\* the token instructions a processor function issues
Transfer(source, destination, amount) ==
    [kind |-> "Transfer", from |-> source, to |-> destination, amount |-> amount]
MintTo(mint, destination, amount) ==
    [kind |-> "MintTo", from |-> mint, to |-> destination, amount |-> amount]
Burn(burn_account, mint, amount) ==
    [kind |-> "Burn", from |-> burn_account, to |-> mint, amount |-> amount]

invoke_signed(w, ix) ==
    CASE ix.kind = "Transfer" -> token_transfer(w, ix.from, ix.to, ix.amount)
      [] ix.kind = "MintTo"   -> token_mint_to(w, ix.from, ix.to, ix.amount)
      [] ix.kind = "Burn"     -> token_burn(w, ix.from, ix.to, ix.amount)

\* the outcome of a processor function: its result, the accounts as it leaves
\* them and the token instructions it issued, the failing one included
Return(res, w, intents) == [res |-> res, w |-> w, intents |-> intents]
Err(e, w) == Return(e, w, <<>>)

\* token instructions issued one after the other, each followed by `?`
RECURSIVE invoke_from(_, _, _)
invoke_from(w, intents, i) ==
    IF i > Len(intents) THEN Return("Ok", w, intents)
    ELSE LET r == invoke_signed(w, intents[i])
         IN  IF r.res # "Ok" THEN Return(r.res, r.w, SubSeq(intents, 1, i))
             ELSE invoke_from(r.w, intents, i + 1)

invoke_all(w, intents) == invoke_from(w, intents, 1)

(***************************************************************************)
(* The processor.                                                          *)
(***************************************************************************)
INVALID_ADDRESS == "InvalidProgramAddress"

\* Processor::authority_id: the program address of (swap account, nonce)
authority_id(nonce) == IF nonce = NONCE THEN AUTHORITY ELSE INVALID_ADDRESS

WrongAuthority(authority_info, nonce) ==
    authority_id(nonce) = INVALID_ADDRESS \/ authority_info # authority_id(nonce)

\* Processor::unpack_token_account / unpack_mint succeed
IsTokenAccount(w, key) == key \in DOMAIN w.accounts
IsMint(w, key) == key \in DOMAIN w.mints

\* SwapInfo::unpack fails on a record that is not initialized
SwapInfo_unpack(info) == IF info.is_initialized THEN "Ok" ELSE "UninitializedAccount"

\* ---- initialize ----

\* initialize_record, but the fee configuration is left zeroed
initialize_record_without_fees(w, ix) ==
    [is_initialized      |-> TRUE,
     nonce               |-> ix.nonce,
     amp_factor          |-> ix.amp_factor,
     token_a             |-> ix.token_a_info,
     token_b             |-> ix.token_b_info,
     pool_mint           |-> ix.pool_mint_info,
     token_a_mint        |-> w.accounts[ix.token_a_info].mint,
     token_b_mint        |-> w.accounts[ix.token_b_info].mint,
     admin_fee_account_a |-> ix.admin_fee_a_info,
     admin_fee_account_b |-> ix.admin_fee_b_info,
     fees                |-> ZeroFees]

\* the record process_initialize packs
initialize_record(w, ix) ==
    [is_initialized      |-> TRUE,
     nonce               |-> ix.nonce,
     amp_factor          |-> ix.amp_factor,
     token_a             |-> ix.token_a_info,
     token_b             |-> ix.token_b_info,
     pool_mint           |-> ix.pool_mint_info,
     token_a_mint        |-> w.accounts[ix.token_a_info].mint,
     token_b_mint        |-> w.accounts[ix.token_b_info].mint,
     admin_fee_account_a |-> ix.admin_fee_a_info,
     admin_fee_account_b |-> ix.admin_fee_b_info,
     fees                |-> ix.fees]

\* the LP tokens for the bootstrapper
initialize_intents(ix, mint_amount) ==
    <<MintTo(ix.pool_mint_info, ix.destination_info, mint_amount)>>

\* initialize_mint, but the amp factor is taken as it is given
initialize_mint_any_amp(w, ix) ==
    LET token_a     == w.accounts[ix.token_a_info]
        token_b     == w.accounts[ix.token_b_info]
        mint_amount == compute_d(ix.amp_factor, to_u128(token_a.amount), to_u128(token_b.amount))
    IN  IF mint_amount = None THEN Err("Panic", w)
        ELSE IF to_u64(mint_amount) = None THEN Err("ConversionFailure", w)
        ELSE LET r == invoke_all(w, initialize_intents(ix, to_u64(mint_amount)))
             IN  IF r.res # "Ok" THEN r
                 ELSE Return("Ok", [r.w EXCEPT !.swap_info = initialize_record(w, ix)],
                             r.intents)

\* the mint of the first LP tokens and the write of the record
initialize_mint(w, ix) ==
    LET token_a     == w.accounts[ix.token_a_info]
        token_b     == w.accounts[ix.token_b_info]
        invariant   == StableSwap_new(ix.amp_factor)
        mint_amount == compute_d(invariant, to_u128(token_a.amount), to_u128(token_b.amount))
    IN  IF invariant = None THEN Err("CalculationFailure", w)
        ELSE IF mint_amount = None THEN Err("Panic", w)
        ELSE IF to_u64(mint_amount) = None THEN Err("ConversionFailure", w)
        ELSE LET r == invoke_all(w, initialize_intents(ix, to_u64(mint_amount)))
             IN  IF r.res # "Ok" THEN r
                 ELSE Return("Ok", [r.w EXCEPT !.swap_info = initialize_record(w, ix)],
                             r.intents)

\* initialize_validate, but the empty reserves are looked for before the
\* repeated mint
initialize_validate_supply_first(w, ix) ==
    IF WrongAuthority(ix.authority_info, ix.nonce) THEN Err("InvalidProgramAddress", w)
    ELSE IF ~IsTokenAccount(w, ix.token_a_info) THEN Err("ExpectedAccount", w)
    ELSE IF ~IsTokenAccount(w, ix.token_b_info) THEN Err("ExpectedAccount", w)
    ELSE IF ~IsMint(w, ix.pool_mint_info) THEN Err("ExpectedMint", w)
    ELSE LET token_a   == w.accounts[ix.token_a_info]
             token_b   == w.accounts[ix.token_b_info]
             pool_mint == w.mints[ix.pool_mint_info]
         IN  IF ix.authority_info # token_a.owner THEN Err("InvalidOwner", w)
             ELSE IF ix.authority_info # token_b.owner THEN Err("InvalidOwner", w)
             ELSE IF pool_mint.mint_authority # NO_KEY
                     /\ ix.authority_info # pool_mint.mint_authority
                  THEN Err("InvalidOwner", w)
             ELSE IF token_b.amount = 0 THEN Err("EmptySupply", w)
             ELSE IF token_a.amount = 0 THEN Err("EmptySupply", w)
             ELSE IF token_a.mint = token_b.mint THEN Err("RepeatedMint", w)
             ELSE IF token_a.delegate # NO_KEY THEN Err("InvalidDelegate", w)
             ELSE IF token_b.delegate # NO_KEY THEN Err("InvalidDelegate", w)
             ELSE IF pool_mint.supply # 0 THEN Err("InvalidSupply", w)
             ELSE IF ~IsTokenAccount(w, ix.admin_fee_a_info) THEN Err("ExpectedAccount", w)
             ELSE IF ~IsTokenAccount(w, ix.admin_fee_b_info) THEN Err("ExpectedAccount", w)
             ELSE IF token_a.mint # w.accounts[ix.admin_fee_a_info].mint
                  THEN Err("InvalidAdmin", w)
             ELSE IF token_b.mint # w.accounts[ix.admin_fee_b_info].mint
                  THEN Err("InvalidAdmin", w)
             ELSE initialize_mint(w, ix)

\* the checks of the accounts, in the order of the code
initialize_validate(w, ix) ==
    IF WrongAuthority(ix.authority_info, ix.nonce) THEN Err("InvalidProgramAddress", w)
    ELSE IF ~IsTokenAccount(w, ix.token_a_info) THEN Err("ExpectedAccount", w)
    ELSE IF ~IsTokenAccount(w, ix.token_b_info) THEN Err("ExpectedAccount", w)
    ELSE IF ~IsMint(w, ix.pool_mint_info) THEN Err("ExpectedMint", w)
    ELSE LET token_a   == w.accounts[ix.token_a_info]
             token_b   == w.accounts[ix.token_b_info]
             pool_mint == w.mints[ix.pool_mint_info]
         IN  IF ix.authority_info # token_a.owner THEN Err("InvalidOwner", w)
             ELSE IF ix.authority_info # token_b.owner THEN Err("InvalidOwner", w)
             ELSE IF pool_mint.mint_authority # NO_KEY
                     /\ ix.authority_info # pool_mint.mint_authority
                  THEN Err("InvalidOwner", w)
             ELSE IF token_a.mint = token_b.mint THEN Err("RepeatedMint", w)
             ELSE IF token_b.amount = 0 THEN Err("EmptySupply", w)
             ELSE IF token_a.amount = 0 THEN Err("EmptySupply", w)
             ELSE IF token_a.delegate # NO_KEY THEN Err("InvalidDelegate", w)
             ELSE IF token_b.delegate # NO_KEY THEN Err("InvalidDelegate", w)
             ELSE IF pool_mint.supply # 0 THEN Err("InvalidSupply", w)
             ELSE IF ~IsTokenAccount(w, ix.admin_fee_a_info) THEN Err("ExpectedAccount", w)
             ELSE IF ~IsTokenAccount(w, ix.admin_fee_b_info) THEN Err("ExpectedAccount", w)
             ELSE IF token_a.mint # w.accounts[ix.admin_fee_a_info].mint
                  THEN Err("InvalidAdmin", w)
             ELSE IF token_b.mint # w.accounts[ix.admin_fee_b_info].mint
                  THEN Err("InvalidAdmin", w)
             ELSE initialize_mint(w, ix)

\* process_initialize without its first check
process_initialize_unguarded(w, ix) == initialize_validate(w, ix)

\* Processor::process_initialize
process_initialize(w, ix) ==
    IF w.swap_info.is_initialized THEN Err("AlreadyInUse", w)
    ELSE initialize_validate(w, ix)

\* ---- swap ----

\* swap_intents, but the pool pays before it is paid
swap_intents_reversed(ix, amount_swapped) ==
    <<Transfer(ix.swap_destination_info, ix.destination_info, amount_swapped),
      Transfer(ix.source_info, ix.swap_source_info, ix.amount_in)>>

\* swap_intents, but the pool pays out the amount it was paid
swap_intents_pay_amount_in(ix, amount_swapped) ==
    <<Transfer(ix.source_info, ix.swap_source_info, ix.amount_in),
      Transfer(ix.swap_destination_info, ix.destination_info, ix.amount_in)>>

\* the two transfers of a swap
swap_intents(ix, amount_swapped) ==
    <<Transfer(ix.source_info, ix.swap_source_info, ix.amount_in),
      Transfer(ix.swap_destination_info, ix.destination_info, amount_swapped)>>

\* swap_exceeds_slippage, but the minimum is never looked at
swap_exceeds_slippage_never(amount_swapped, minimum_amount_out) == FALSE

\* amount_swapped < minimum_amount_out
swap_exceeds_slippage(amount_swapped, minimum_amount_out) ==
    amount_swapped < minimum_amount_out

\* the curve's result, the slippage check and the transfers
swap_exchange(w, ix) ==
    LET token_swap == w.swap_info
        invariant  == StableSwap_new(token_swap.amp_factor)
        result     == swap_to(invariant,
                              to_u128(ix.amount_in),
                              to_u128(w.accounts[ix.swap_source_info].amount),
                              to_u128(w.accounts[ix.swap_destination_info].amount),
                              to_u128(token_swap.fees.trade_fee_numerator),
                              to_u128(token_swap.fees.trade_fee_denominator))
        amount_swapped == to_u64(result.amount_swapped)
    IN  IF invariant = None THEN Err("CalculationFailure", w)
        ELSE IF ~result.some THEN Err("CalculationFailure", w)
        ELSE IF amount_swapped = None THEN Err("ConversionFailure", w)
        ELSE IF swap_exceeds_slippage(amount_swapped, ix.minimum_amount_out)
             THEN Err("ExceededSlippage", w)
        ELSE invoke_all(w, swap_intents(ix, amount_swapped))

\* swap_validate, but the source may be the destination
swap_validate_same_account(w, ix) ==
    LET token_swap == w.swap_info
    IN  IF WrongAuthority(ix.authority_info, token_swap.nonce)
        THEN Err("InvalidProgramAddress", w)
        ELSE IF ~(ix.swap_source_info = token_swap.token_a
                  \/ ix.swap_source_info = token_swap.token_b)
             THEN Err("IncorrectSwapAccount", w)
        ELSE IF ~(ix.swap_destination_info = token_swap.token_a
                  \/ ix.swap_destination_info = token_swap.token_b)
             THEN Err("IncorrectSwapAccount", w)
        ELSE IF ~IsTokenAccount(w, ix.swap_source_info) THEN Err("ExpectedAccount", w)
        ELSE IF ~IsTokenAccount(w, ix.swap_destination_info) THEN Err("ExpectedAccount", w)
        ELSE swap_exchange(w, ix)

\* the checks of the accounts of a swap
swap_validate(w, ix) ==
    LET token_swap == w.swap_info
    IN  IF WrongAuthority(ix.authority_info, token_swap.nonce)
        THEN Err("InvalidProgramAddress", w)
        ELSE IF ~(ix.swap_source_info = token_swap.token_a
                  \/ ix.swap_source_info = token_swap.token_b)
             THEN Err("IncorrectSwapAccount", w)
        ELSE IF ~(ix.swap_destination_info = token_swap.token_a
                  \/ ix.swap_destination_info = token_swap.token_b)
             THEN Err("IncorrectSwapAccount", w)
        ELSE IF ix.swap_source_info = ix.swap_destination_info
             THEN Err("InvalidInput", w)
        ELSE IF ~IsTokenAccount(w, ix.swap_source_info) THEN Err("ExpectedAccount", w)
        ELSE IF ~IsTokenAccount(w, ix.swap_destination_info) THEN Err("ExpectedAccount", w)
        ELSE swap_exchange(w, ix)

\* process_swap without the unpacking of the record
process_swap_unchecked(w, ix) == swap_validate(w, ix)

\* Processor::process_swap
process_swap(w, ix) ==
    IF SwapInfo_unpack(w.swap_info) # "Ok" THEN Err(SwapInfo_unpack(w.swap_info), w)
    ELSE swap_validate(w, ix)

\* ---- deposit ----

\* deposit_fee_balance, but the fee is the admin trade fee
deposit_fee_balance_admin_fee(fees, d_0, d_1, old_balance, new_balance) ==
    IF d_0 = 0 \/ to_u128(fees.admin_trade_fee_denominator) = 0 THEN None
    ELSE LET ideal_balance == (d_1 * old_balance) \div d_0
             difference    == IF ideal_balance > new_balance
                              THEN ideal_balance - new_balance
                              ELSE new_balance - ideal_balance
             fee == (to_u128(fees.admin_trade_fee_numerator) * difference)
                        \div to_u128(fees.admin_trade_fee_denominator)
         IN  IF fee > new_balance THEN None ELSE new_balance - fee

\* one side of the fee loop: the side's balance less its fee.  None when the
\* unchecked arithmetic of the loop has no value: a division by a zero d_0 or
\* a zero fee denominator aborts; new_balances[i] -= fee below zero aborts
\* with overflow checks and otherwise wraps to a balance near 2^128, for
\* which the next compute_d has no value.
deposit_fee_balance(fees, d_0, d_1, old_balance, new_balance) ==
    IF d_0 = 0 \/ to_u128(fees.trade_fee_denominator) = 0 THEN None
    ELSE LET ideal_balance == (d_1 * old_balance) \div d_0
             difference    == IF ideal_balance > new_balance
                              THEN ideal_balance - new_balance
                              ELSE new_balance - ideal_balance
             fee == (to_u128(fees.trade_fee_numerator) * difference)
                        \div to_u128(fees.trade_fee_denominator)
         IN  IF fee > new_balance THEN None ELSE new_balance - fee

\* the LP tokens a deposit mints, as a u128: [res, mint_amount]
deposit_mint_amount_u128(token_swap, checks, supply, balance_a, balance_b, token_a_amount, token_b_amount) ==
    LET No(e) == [res |-> e, mint_amount |-> 0]
        swap_balance_a_u128 == to_u128(balance_a)
        swap_balance_b_u128 == to_u128(balance_b)
        invariant == StableSwap_new(token_swap.amp_factor)
        d_0   == compute_d(invariant, swap_balance_a_u128, swap_balance_b_u128)
        new_a == swap_balance_a_u128 + to_u128(token_a_amount)
        new_b == swap_balance_b_u128 + to_u128(token_b_amount)
        d_1   == compute_d(invariant, new_a, new_b)
        fee_a == deposit_fee_balance(token_swap.fees, d_0, d_1, swap_balance_a_u128, new_a)
        fee_b == deposit_fee_balance(token_swap.fees, d_0, d_1, swap_balance_b_u128, new_b)
        d_2   == compute_d(invariant, fee_a, fee_b)
        mint_amount_u128 == (to_u128(supply) * (d_2 - d_0)) \div d_0
    IN  IF invariant = None THEN No("CalculationFailure")
        ELSE IF d_0 = None \/ d_1 = None THEN No("Panic")
        \* assert!(d_1 > d_0)
        ELSE IF ~(d_1 > d_0) THEN No("Panic")
        ELSE IF fee_a = None \/ fee_b = None THEN No("Panic")
        ELSE IF d_2 = None THEN No("Panic")
        \* d_2 - d_0 below zero: aborts with overflow checks; without them
        \* it wraps near 2^128 and the quotient does not fit a u64
        ELSE IF d_2 < d_0
             THEN IF checks THEN No("Panic") ELSE No("ConversionFailure")
        ELSE [res |-> "Ok", mint_amount |-> mint_amount_u128]

\* the LP tokens a deposit mints, narrowed to a u64: [res, mint_amount]
deposit_mint_amount(token_swap, checks, supply, balance_a, balance_b, token_a_amount, token_b_amount) ==
    LET m == deposit_mint_amount_u128(token_swap, checks, supply, balance_a, balance_b,
                                      token_a_amount, token_b_amount)
    IN  IF m.res # "Ok" THEN m
        ELSE IF to_u64(m.mint_amount) = None
             THEN [res |-> "ConversionFailure", mint_amount |-> 0]
        ELSE [res |-> "Ok", mint_amount |-> to_u64(m.mint_amount)]

\* deposit_intents, but the pool tokens are minted before the user has paid
deposit_intents_mint_first(ix, mint_amount) ==
    <<MintTo(ix.pool_mint_info, ix.dest_info, mint_amount),
      Transfer(ix.source_a_info, ix.token_a_info, ix.token_a_amount),
      Transfer(ix.source_b_info, ix.token_b_info, ix.token_b_amount)>>

\* the two transfers and the mint of a deposit
deposit_intents(ix, mint_amount) ==
    <<Transfer(ix.source_a_info, ix.token_a_info, ix.token_a_amount),
      Transfer(ix.source_b_info, ix.token_b_info, ix.token_b_amount),
      MintTo(ix.pool_mint_info, ix.dest_info, mint_amount)>>

\* the computation, the slippage check and the token instructions
deposit_exchange(w, ix, checks) ==
    LET m == deposit_mint_amount(w.swap_info, checks,
                                 w.mints[ix.pool_mint_info].supply,
                                 w.accounts[ix.token_a_info].amount,
                                 w.accounts[ix.token_b_info].amount,
                                 ix.token_a_amount, ix.token_b_amount)
    IN  IF m.res # "Ok" THEN Err(m.res, w)
        ELSE IF m.mint_amount < ix.min_mint_amount THEN Err("ExceededSlippage", w)
        ELSE invoke_all(w, deposit_intents(ix, m.mint_amount))

\* deposit_validate, but reserve a may be any account
deposit_validate_any_reserve(w, ix, checks) ==
    LET token_swap == w.swap_info
    IN  IF WrongAuthority(ix.authority_info, token_swap.nonce)
        THEN Err("InvalidProgramAddress", w)
        ELSE IF ix.token_b_info # token_swap.token_b THEN Err("IncorrectSwapAccount", w)
        ELSE IF ix.pool_mint_info # token_swap.pool_mint THEN Err("IncorrectPoolMint", w)
        ELSE IF ~IsTokenAccount(w, ix.token_a_info) THEN Err("ExpectedAccount", w)
        ELSE IF ~IsTokenAccount(w, ix.token_b_info) THEN Err("ExpectedAccount", w)
        ELSE IF ~IsMint(w, ix.pool_mint_info) THEN Err("ExpectedMint", w)
        ELSE deposit_exchange(w, ix, checks)

\* the checks of the accounts of a deposit
deposit_validate(w, ix, checks) ==
    LET token_swap == w.swap_info
    IN  IF WrongAuthority(ix.authority_info, token_swap.nonce)
        THEN Err("InvalidProgramAddress", w)
        ELSE IF ix.token_a_info # token_swap.token_a THEN Err("IncorrectSwapAccount", w)
        ELSE IF ix.token_b_info # token_swap.token_b THEN Err("IncorrectSwapAccount", w)
        ELSE IF ix.pool_mint_info # token_swap.pool_mint THEN Err("IncorrectPoolMint", w)
        ELSE IF ~IsTokenAccount(w, ix.token_a_info) THEN Err("ExpectedAccount", w)
        ELSE IF ~IsTokenAccount(w, ix.token_b_info) THEN Err("ExpectedAccount", w)
        ELSE IF ~IsMint(w, ix.pool_mint_info) THEN Err("ExpectedMint", w)
        ELSE deposit_exchange(w, ix, checks)

\* Processor::process_deposit
process_deposit(w, ix, checks) ==
    IF SwapInfo_unpack(w.swap_info) # "Ok" THEN Err(SwapInfo_unpack(w.swap_info), w)
    ELSE deposit_validate(w, ix, checks)

\* ---- withdraw ----

\* withdraw_intents, but the pool tokens are burnt first
withdraw_intents_burn_first(ix, a_amount, b_amount) ==
    <<Burn(ix.source_info, ix.pool_mint_info, ix.pool_token_amount),
      Transfer(ix.token_a_info, ix.dest_token_a_info, a_amount),
      Transfer(ix.token_b_info, ix.dest_token_b_info, b_amount)>>

\* the two transfers and the burn of a withdrawal
withdraw_intents(ix, a_amount, b_amount) ==
    <<Transfer(ix.token_a_info, ix.dest_token_a_info, a_amount),
      Transfer(ix.token_b_info, ix.dest_token_b_info, b_amount),
      Burn(ix.source_info, ix.pool_mint_info, ix.pool_token_amount)>>

\* withdraw_exchange, but token a is paid out before the slippage limit of
\* token b is looked at
withdraw_exchange_pay_a_first(w, ix) ==
    LET pool_token_amount_u128 == to_u128(ix.pool_token_amount)
        converter == PoolTokenConverter_new(
                         to_u128(w.mints[ix.pool_mint_info].supply),
                         to_u128(w.accounts[ix.token_a_info].amount),
                         to_u128(w.accounts[ix.token_b_info].amount))
        a_rate   == token_a_rate(converter, pool_token_amount_u128)
        b_rate   == token_b_rate(converter, pool_token_amount_u128)
    IN  IF a_rate = None THEN Err("CalculationFailure", w)
        ELSE IF to_u64(a_rate) = None THEN Err("ConversionFailure", w)
        ELSE IF to_u64(a_rate) < ix.minimum_token_a_amount THEN Err("ExceededSlippage", w)
        ELSE IF b_rate = None THEN Err("CalculationFailure", w)
        ELSE IF to_u64(b_rate) = None THEN Err("ConversionFailure", w)
        ELSE LET paid == invoke_all(w, <<Transfer(ix.token_a_info, ix.dest_token_a_info,
                                                  to_u64(a_rate))>>)
             IN  IF paid.res # "Ok" THEN paid
                 ELSE IF to_u64(b_rate) < ix.minimum_token_b_amount
                      THEN Return("ExceededSlippage", paid.w, paid.intents)
                 ELSE invoke_all(w, withdraw_intents(ix, to_u64(a_rate), to_u64(b_rate)))

\* the conversion of the pool tokens, the slippage checks and the token
\* instructions
withdraw_exchange(w, ix) ==
    LET pool_token_amount_u128 == to_u128(ix.pool_token_amount)
        converter == PoolTokenConverter_new(
                         to_u128(w.mints[ix.pool_mint_info].supply),
                         to_u128(w.accounts[ix.token_a_info].amount),
                         to_u128(w.accounts[ix.token_b_info].amount))
        a_rate   == token_a_rate(converter, pool_token_amount_u128)
        b_rate   == token_b_rate(converter, pool_token_amount_u128)
    IN  IF a_rate = None THEN Err("CalculationFailure", w)
        ELSE IF to_u64(a_rate) = None THEN Err("ConversionFailure", w)
        ELSE IF to_u64(a_rate) < ix.minimum_token_a_amount THEN Err("ExceededSlippage", w)
        ELSE IF b_rate = None THEN Err("CalculationFailure", w)
        ELSE IF to_u64(b_rate) = None THEN Err("ConversionFailure", w)
        ELSE IF to_u64(b_rate) < ix.minimum_token_b_amount THEN Err("ExceededSlippage", w)
        ELSE invoke_all(w, withdraw_intents(ix, to_u64(a_rate), to_u64(b_rate)))

\* withdraw_validate, but the LP supply is not looked at
withdraw_validate_any_supply(w, ix) ==
    LET token_swap == w.swap_info
    IN  IF WrongAuthority(ix.authority_info, token_swap.nonce)
        THEN Err("InvalidProgramAddress", w)
        ELSE IF ix.token_a_info # token_swap.token_a THEN Err("IncorrectSwapAccount", w)
        ELSE IF ix.token_b_info # token_swap.token_b THEN Err("IncorrectSwapAccount", w)
        ELSE IF ix.pool_mint_info # token_swap.pool_mint THEN Err("IncorrectPoolMint", w)
        ELSE IF ~IsMint(w, ix.pool_mint_info) THEN Err("ExpectedMint", w)
        ELSE IF ~IsTokenAccount(w, ix.token_a_info) THEN Err("ExpectedAccount", w)
        ELSE IF ~IsTokenAccount(w, ix.token_b_info) THEN Err("ExpectedAccount", w)
        ELSE withdraw_exchange(w, ix)

\* the checks of the accounts of a withdrawal
withdraw_validate(w, ix) ==
    LET token_swap == w.swap_info
    IN  IF WrongAuthority(ix.authority_info, token_swap.nonce)
        THEN Err("InvalidProgramAddress", w)
        ELSE IF ix.token_a_info # token_swap.token_a THEN Err("IncorrectSwapAccount", w)
        ELSE IF ix.token_b_info # token_swap.token_b THEN Err("IncorrectSwapAccount", w)
        ELSE IF ix.pool_mint_info # token_swap.pool_mint THEN Err("IncorrectPoolMint", w)
        ELSE IF ~IsMint(w, ix.pool_mint_info) THEN Err("ExpectedMint", w)
        ELSE IF w.mints[ix.pool_mint_info].supply = 0 THEN Err("EmptyPool", w)
        ELSE IF ~IsTokenAccount(w, ix.token_a_info) THEN Err("ExpectedAccount", w)
        ELSE IF ~IsTokenAccount(w, ix.token_b_info) THEN Err("ExpectedAccount", w)
        ELSE withdraw_exchange(w, ix)

\* process_withdraw, but the withdrawal of the last pool tokens clears the
\* record
process_withdraw_closing(w, ix) ==
    LET r == IF SwapInfo_unpack(w.swap_info) # "Ok"
             THEN Err(SwapInfo_unpack(w.swap_info), w)
             ELSE withdraw_validate(w, ix)
    IN  IF r.res = "Ok" /\ r.w.mints[ix.pool_mint_info].supply = 0
        THEN Return("Ok", [r.w EXCEPT !.swap_info = EmptySwapInfo], r.intents)
        ELSE r

\* Processor::process_withdraw
process_withdraw(w, ix) ==
    IF SwapInfo_unpack(w.swap_info) # "Ok" THEN Err(SwapInfo_unpack(w.swap_info), w)
    ELSE withdraw_validate(w, ix)

\* ---- the runtime ----

\* do_process_instruction, but the accounts are updated whatever the result
do_process_instruction_always(w, r) == r.w

\* do_process_instruction: the accounts are updated only if the instruction
\* is successful
do_process_instruction(w, r) == IF r.res = "Ok" THEN r.w ELSE w

(***************************************************************************)
(* The instructions the model submits.                                     *)
(***************************************************************************)
\* the reserves the pool is created with
ReserveChoices == {<<InitReserve - 1, InitReserve + 1>>}

InitializeIx(nonce, amp_factor, fees) ==
    [nonce            |-> nonce,
     amp_factor       |-> amp_factor,
     fees             |-> fees,
     authority_info   |-> AUTHORITY,
     token_a_info     |-> "token_a",
     token_b_info     |-> "token_b",
     pool_mint_info   |-> "pool_mint",
     destination_info |-> "pool_token",
     admin_fee_a_info |-> "admin_fee_a",
     admin_fee_b_info |-> "admin_fee_b"]

\* initializations of a pool without a trade fee, of one with a fee of a
\* quarter, of one with a zero fee denominator and of one with a zero amp,
\* and some with one wrong argument or account
InitializeInputs ==
    LET good == InitializeIx(NONCE, 1, Fees(1, 4))
    IN  {InitializeIx(NONCE, 1, Fees(0, 1)), InitializeIx(NONCE, 2, Fees(1, 4)),
         InitializeIx(NONCE, 1, Fees(1, 0)), InitializeIx(NONCE, 0, Fees(1, 4))}
        \cup {InitializeIx(NONCE - 1, 2, Fees(0, 1)),
              [good EXCEPT !.token_a_info = "user_a"],
              [good EXCEPT !.token_b_info = "admin_fee_a"],
              [good EXCEPT !.token_a_info = "pool_mint"],
              [good EXCEPT !.pool_mint_info = "mint_a"],
              [good EXCEPT !.admin_fee_a_info = "admin_fee_b"],
              [good EXCEPT !.destination_info = "user_a"]}

SwapIx(amount_in, minimum_amount_out, swap_source, swap_destination) ==
    [amount_in             |-> amount_in,
     minimum_amount_out    |-> minimum_amount_out,
     authority_info        |-> AUTHORITY,
     source_info           |-> IF swap_source = "token_b" THEN "user_b" ELSE "user_a",
     swap_source_info      |-> swap_source,
     swap_destination_info |-> swap_destination,
     destination_info      |-> IF swap_destination = "token_a" THEN "user_a" ELSE "user_b"]

SwapInputs ==
    LET good == SwapIx(1, 0, "token_a", "token_b")
    IN  {SwapIx(n, m, sd[1], sd[2]) :
            n \in 0..MaxAmount, m \in {0, MaxAmount},
            sd \in {<<"token_a", "token_b">>, <<"token_b", "token_a">>}}
        \cup {SwapIx(1, 0, "token_a", "token_a"),
              SwapIx(1, 0, "admin_fee_a", "token_b"),
              [good EXCEPT !.authority_info = USER],
              [good EXCEPT !.destination_info = "user_a"]}

DepositIx(token_a_amount, token_b_amount, min_mint_amount) ==
    [token_a_amount  |-> token_a_amount,
     token_b_amount  |-> token_b_amount,
     min_mint_amount |-> min_mint_amount,
     authority_info  |-> AUTHORITY,
     source_a_info   |-> "user_a",
     source_b_info   |-> "user_b",
     token_a_info    |-> "token_a",
     token_b_info    |-> "token_b",
     pool_mint_info  |-> "pool_mint",
     dest_info       |-> "pool_token"]

DepositInputs ==
    LET good == DepositIx(1, 1, 0)
    IN  {DepositIx(a, b, m) : a \in 0..MaxAmount, b \in 0..MaxAmount, m \in {0, MaxAmount}}
        \cup {[good EXCEPT !.token_a_info = "admin_fee_a"],
              [good EXCEPT !.pool_mint_info = "mint_a"],
              [good EXCEPT !.authority_info = USER],
              [good EXCEPT !.dest_info = "user_a"]}

WithdrawIx(pool_token_amount, minimum_token_a_amount, minimum_token_b_amount, source) ==
    [pool_token_amount      |-> pool_token_amount,
     minimum_token_a_amount |-> minimum_token_a_amount,
     minimum_token_b_amount |-> minimum_token_b_amount,
     authority_info         |-> AUTHORITY,
     pool_mint_info         |-> "pool_mint",
     source_info            |-> source,
     token_a_info           |-> "token_a",
     token_b_info           |-> "token_b",
     dest_token_a_info      |-> "user_a",
     dest_token_b_info      |-> "user_b"]

WithdrawInputs ==
    LET good == WithdrawIx(1, 0, 0, "pool_token")
    IN  {WithdrawIx(n, ma, mb, src) :
            n \in 0..MaxAmount, ma \in {0, 1}, mb \in {0, 1},
            src \in {"pool_token", "user_pool"}}
        \cup {[good EXCEPT !.token_b_info = "admin_fee_b"],
              [good EXCEPT !.pool_mint_info = "mint_a"],
              [good EXCEPT !.authority_info = USER]}

\* swaps whose swap source is their swap destination: a reserve, as in
\* tests::test_swap ("swap from a to a"), or another account
SameAccountSwaps ==
    {SwapIx(n, 0, k, k) : n \in 0..MaxAmount,
                          k \in {"token_a", "token_b", "admin_fee_a", "user_b"}}

\* swaps, deposits and withdrawals that name an account or a mint the pool
\* does not have, as tests::test_swap, test_deposit and test_withdraw do
\* ("wrong swap token accounts", "wrong mint")
WrongAccountSwaps ==
    {SwapIx(1, 0, sd[1], sd[2]) :
        sd \in {<<"admin_fee_a", "token_b">>, <<"token_a", "admin_fee_b">>,
                <<"user_a", "token_b">>, <<"token_b", "user_a">>}}

WrongAccountDeposits ==
    LET good == DepositIx(1, 1, 0)
    IN  {[good EXCEPT !.token_a_info = "admin_fee_a"],
         [good EXCEPT !.token_b_info = "admin_fee_b"],
         [good EXCEPT !.token_a_info = "token_b", !.token_b_info = "token_a"],
         [good EXCEPT !.token_a_info = "user_a"],
         [good EXCEPT !.pool_mint_info = "mint_a"],
         [good EXCEPT !.pool_mint_info = "mint_b"]}

WrongAccountWithdraws ==
    LET good == WithdrawIx(1, 0, 0, "pool_token")
    IN  {[good EXCEPT !.token_a_info = "admin_fee_a"],
         [good EXCEPT !.token_b_info = "admin_fee_b"],
         [good EXCEPT !.token_a_info = "token_b", !.token_b_info = "token_a"],
         [good EXCEPT !.token_b_info = "user_b"],
         [good EXCEPT !.pool_mint_info = "mint_a"],
         [good EXCEPT !.pool_mint_info = "mint_b"]}

\* initializations that break several preconditions at once: a wrong nonce,
\* a zero amp, and accounts of the wrong kind, owner, mint, balance or
\* delegate in the place of a reserve, of the pool mint or of an admin fee
\* account, as tests::test_initialize has them one at a time
InitializeOrderInputs ==
    {[InitializeIx(nonce, amp, Fees(0, 1)) EXCEPT !.token_a_info = a,
                                                  !.token_b_info = b,
                                                  !.pool_mint_info = m,
                                                  !.admin_fee_a_info = f] :
        nonce \in {NONCE, NONCE - 1}, amp \in {0, 1},
        a \in {"token_a", "user_a", "pool_mint"},
        b \in {"token_b", "admin_fee_a", "admin_fee_b", "user_b"},
        m \in {"pool_mint", "mint_a", "token_a"},
        f \in {"admin_fee_a", "admin_fee_b"}}

\* the accounts tests::test_initialize gives to initialize before the pool
\* is created: as they are, with a delegated reserve, with an empty reserve
\* and with pool tokens already in circulation
InitializeOrderWorlds ==
    IF swap_info.is_initialized THEN {World}
    ELSE {World,
          [World EXCEPT !.accounts["token_a"].delegate = USER],
          [World EXCEPT !.accounts["token_b"].delegate = USER],
          [World EXCEPT !.accounts["token_a"].amount = 0],
          [World EXCEPT !.mints["pool_mint"].supply = 1,
                        !.accounts["pool_token"].amount = 1],
          [World EXCEPT !.accounts["token_b"].delegate = USER,
                        !.mints["pool_mint"].supply = 1,
                        !.accounts["pool_token"].amount = 1]}

(***************************************************************************)
(* The state machine.                                                      *)
(***************************************************************************)
Init ==
    /\ swap_info = EmptySwapInfo
    /\ \E r \in ReserveChoices :
          /\ accounts = InitialAccounts(r[1], r[2])
          /\ mints = InitialMints(r[1], r[2])
    /\ last = [op |-> "None", res |-> "Ok", issued |-> 0]

\* an instruction run through do_process_instruction, with its outcome r;
\* last keeps which instruction it was, its result and the number of token
\* instructions it issued (the failing one included)
Run(op, r) ==
    LET w == do_process_instruction(World, r)
    IN  /\ swap_info' = w.swap_info
        /\ accounts' = w.accounts
        /\ mints' = w.mints
        /\ last' = [op |-> op, res |-> r.res, issued |-> Len(r.intents)]

Initialize ==
    \E ix \in InitializeInputs : Run("Initialize", process_initialize(World, ix))

Swap ==
    \E ix \in SwapInputs : Run("Swap", process_swap(World, ix))

\* the build decides whether unchecked arithmetic aborts or wraps
Deposit ==
    \E ix \in DepositInputs, overflow_checks \in BOOLEAN :
        Run("Deposit", process_deposit(World, ix, overflow_checks))

Withdraw ==
    \E ix \in WithdrawInputs : Run("Withdraw", process_withdraw(World, ix))

Next == Initialize \/ Swap \/ Deposit \/ Withdraw

Spec == Init /\ [][Next]_vars

(***************************************************************************)
(* The curve at the amounts of the tests.                                  *)
(*                                                                         *)
(* A second specification runs the computations of initialize, swap and     *)
(* deposit on pools of every shape (balanced, imbalanced, one reserve down to a    *)
(* single token) and on the pool of tests::test_swap.  Its amounts are far *)
(* below the largest u64, so that no narrowing and no token instruction    *)
(* overflows, and its accounts are the ones the checks of the instructions *)
(* accept: an instruction is here its computation, its slippage check and  *)
(* the token instructions that follow.                                     *)
(***************************************************************************)
\* the largest reserve of the pools of every shape
MaxReserve == 10
\* the largest reserve of the pools whose other reserve is a single token
MaxThinReserve == 33
\* the tokens of each kind the user of such a pool holds
CurveUserFunds == 2
\* the largest amount of an instruction on such a pool
MaxCurveAmount == 1
\* the instructions such a pool serves after its initialization
MaxSteps == 1
\* the largest multiple of the reserves a proportional deposit brings
MaxMultiple == 1

\* tests::test_swap: the reserves, the user's tokens, the amount swapped,
\* the number of swaps, the amp factor and DEFAULT_TEST_FEES' trade fee
TEST_RESERVE == 5000
TEST_SWAPS == 2
TEST_USER_FUNDS == 1000
TEST_SWAP_AMOUNT == 100
TEST_AMP_FACTOR == 85
TEST_FEE_NUMERATOR == 6
TEST_FEE_DENOMINATOR == 100

CurveAmounts == (0..MaxCurveAmount) \cup {TEST_SWAP_AMOUNT}

\* the reserves and the user's tokens before the pool is initialized
CurveChoices ==
    {<<a, b, CurveUserFunds>> : a \in 1..MaxReserve, b \in 1..MaxReserve}
    \cup {<<a, 1, CurveUserFunds>> : a \in 1..MaxThinReserve}
    \cup {<<TEST_RESERVE, TEST_RESERVE, TEST_USER_FUNDS>>}

CurveAccounts(token_a_amount, token_b_amount, funds) ==
    [InitialAccounts(token_a_amount, token_b_amount) EXCEPT
        !["user_a"].amount = funds, !["user_b"].amount = funds]

CurveMints(token_a_amount, token_b_amount, funds) ==
    [InitialMints(token_a_amount, token_b_amount) EXCEPT
        !["mint_a"].supply = token_a_amount + funds,
        !["mint_b"].supply = token_b_amount + funds]

\* a token instruction at amounts below the largest u64
settle(w, ix) ==
    CASE ix.kind = "Transfer" ->
             IF w.accounts[ix.from].amount < ix.amount THEN Fail("InsufficientFunds", w)
             ELSE Ok([w EXCEPT !.accounts[ix.from].amount = @ - ix.amount,
                               !.accounts[ix.to].amount = @ + ix.amount])
      [] ix.kind = "MintTo" ->
             Ok([w EXCEPT !.accounts[ix.to].amount = @ + ix.amount,
                          !.mints[ix.from].supply = @ + ix.amount])
      [] ix.kind = "Burn" ->
             IF w.accounts[ix.from].amount < ix.amount THEN Fail("InsufficientFunds", w)
             ELSE Ok([w EXCEPT !.accounts[ix.from].amount = @ - ix.amount,
                               !.mints[ix.to].supply = @ - ix.amount])

RECURSIVE settle_from(_, _, _)
settle_from(w, intents, i) ==
    IF i > Len(intents) THEN Return("Ok", w, intents)
    ELSE LET r == settle(w, intents[i])
         IN  IF r.res # "Ok" THEN Return(r.res, r.w, SubSeq(intents, 1, i))
             ELSE settle_from(r.w, intents, i + 1)

settle_all(w, intents) == settle_from(w, intents, 1)

\* process_initialize after its checks
curve_initialize(w, ix) ==
    LET invariant   == StableSwap_new(ix.amp_factor)
        mint_amount == compute_d(invariant, to_u128(w.accounts[ix.token_a_info].amount),
                                 to_u128(w.accounts[ix.token_b_info].amount))
    IN  IF invariant = None THEN Err("CalculationFailure", w)
        ELSE IF mint_amount = None THEN Err("Panic", w)
        ELSE LET r == settle_all(w, initialize_intents(ix, mint_amount))
             IN  IF r.res # "Ok" THEN r
                 ELSE Return("Ok", [r.w EXCEPT !.swap_info = initialize_record(w, ix)],
                             r.intents)

\* process_swap after its checks
curve_swap(w, ix) ==
    LET token_swap == w.swap_info
        invariant  == StableSwap_new(token_swap.amp_factor)
        result     == swap_to(invariant,
                              to_u128(ix.amount_in),
                              to_u128(w.accounts[ix.swap_source_info].amount),
                              to_u128(w.accounts[ix.swap_destination_info].amount),
                              to_u128(token_swap.fees.trade_fee_numerator),
                              to_u128(token_swap.fees.trade_fee_denominator))
    IN  IF invariant = None THEN Err("CalculationFailure", w)
        ELSE IF ~result.some THEN Err("CalculationFailure", w)
        ELSE IF swap_exceeds_slippage(result.amount_swapped, ix.minimum_amount_out)
             THEN Err("ExceededSlippage", w)
        ELSE settle_all(w, swap_intents(ix, result.amount_swapped))

\* process_deposit after its checks
curve_deposit(w, ix, checks) ==
    LET m == deposit_mint_amount_u128(w.swap_info, checks,
                                      w.mints[ix.pool_mint_info].supply,
                                      w.accounts[ix.token_a_info].amount,
                                      w.accounts[ix.token_b_info].amount,
                                      ix.token_a_amount, ix.token_b_amount)
    IN  IF m.res # "Ok" THEN Err(m.res, w)
        ELSE IF m.mint_amount < ix.min_mint_amount THEN Err("ExceededSlippage", w)
        ELSE settle_all(w, deposit_intents(ix, m.mint_amount))

\* pools without a trade fee at the two smallest amp factors, and the amp
\* factor and the trade fee of tests::test_swap
CurveInitializeInputs ==
    {InitializeIx(NONCE, 1, Fees(0, 1)), InitializeIx(NONCE, 2, Fees(0, 1)),
     InitializeIx(NONCE, TEST_AMP_FACTOR, Fees(TEST_FEE_NUMERATOR, TEST_FEE_DENOMINATOR))}

CurveSwapInputs ==
    {SwapIx(n, 0, sd[1], sd[2]) :
        n \in CurveAmounts,
        sd \in {<<"token_a", "token_b">>, <<"token_b", "token_a">>}}

CurveDepositInputs ==
    {DepositIx(a, b, 0) : a \in CurveAmounts, b \in CurveAmounts}

\* the trade fee a swap withholds from what the curve gives for amount_in
swap_fee_withheld(w, ix) ==
    LET amp    == w.swap_info.amp_factor
        src    == w.accounts[ix.swap_source_info].amount
        dst    == w.accounts[ix.swap_destination_info].amount
        result == swap_to(amp, ix.amount_in, src, dst,
                          w.swap_info.fees.trade_fee_numerator,
                          w.swap_info.fees.trade_fee_denominator)
    IN  IF ~result.some THEN 0
        ELSE dst - compute_y(amp, src + ix.amount_in, compute_d(amp, src, dst))
                 - result.amount_swapped

\* the fees the fee loop of a deposit takes off the two new balances
deposit_fee_withheld(w, ix) ==
    LET amp   == w.swap_info.amp_factor
        x_a   == w.accounts[ix.token_a_info].amount
        x_b   == w.accounts[ix.token_b_info].amount
        new_a == x_a + ix.token_a_amount
        new_b == x_b + ix.token_b_amount
        d_0   == compute_d(amp, x_a, x_b)
        d_1   == compute_d(amp, new_a, new_b)
        bal_a == deposit_fee_balance(w.swap_info.fees, d_0, d_1, x_a, new_a)
        bal_b == deposit_fee_balance(w.swap_info.fees, d_0, d_1, x_b, new_b)
    IN  IF d_0 = None \/ d_1 = None \/ bal_a = None \/ bal_b = None THEN 0
        ELSE (new_a - bal_a) + (new_b - bal_b)

\* the instructions a pool serves after its initialization: the pool of
\* tests::test_swap as many as the test makes swaps
StepLimit ==
    IF mints["mint_a"].supply = TEST_RESERVE + TEST_USER_FUNDS THEN TEST_SWAPS
    ELSE MaxSteps

CurveInit ==
    /\ swap_info = EmptySwapInfo
    /\ \E c \in CurveChoices :
          /\ accounts = CurveAccounts(c[1], c[2], c[3])
          /\ mints = CurveMints(c[1], c[2], c[3])
    /\ last = [op |-> "None", res |-> "Ok", issued |-> 0, step |-> 0, fee |-> 0]

\* an instruction with its outcome r and the fee it withholds; last also
\* counts the instructions that have succeeded
CurveRun(op, r, fee) ==
    LET w == do_process_instruction(World, r)
    IN  /\ swap_info' = w.swap_info
        /\ accounts' = w.accounts
        /\ mints' = w.mints
        /\ last' = [op |-> op, res |-> r.res, issued |-> Len(r.intents),
                    step |-> IF r.res = "Ok" THEN last.step + 1 ELSE last.step,
                    fee |-> IF r.res = "Ok" THEN fee ELSE 0]

CurveInitialize ==
    /\ ~swap_info.is_initialized
    /\ \E ix \in CurveInitializeInputs : CurveRun("Initialize", curve_initialize(World, ix), 0)

CurveSwap ==
    /\ swap_info.is_initialized
    /\ last.step <= StepLimit
    /\ \E ix \in CurveSwapInputs :
          /\ ix.amount_in <= accounts[ix.source_info].amount
          /\ CurveRun("Swap", curve_swap(World, ix), swap_fee_withheld(World, ix))

CurveDeposit ==
    /\ swap_info.is_initialized
    /\ last.step <= StepLimit
    /\ \E ix \in CurveDepositInputs, overflow_checks \in BOOLEAN :
          /\ ix.token_a_amount <= accounts[ix.source_a_info].amount
          /\ ix.token_b_amount <= accounts[ix.source_b_info].amount
          /\ CurveRun("Deposit", curve_deposit(World, ix, overflow_checks),
                      deposit_fee_withheld(World, ix))

CurveNext == CurveInitialize \/ CurveSwap \/ CurveDeposit

SpecCurve == CurveInit /\ [][CurveNext]_vars

(***************************************************************************)
(* The properties.                                                         *)
(*                                                                         *)
(* A property of what an instruction does in a state of the accounts is    *)
(* stated of every instruction the model submits, in every state that the  *)
(* construction or a successful instruction has left (last.res = "Ok"):    *)
(* these states hold every reachable state of the accounts, since a failed *)
(* instruction leaves the accounts of the state before it (AllOrNothing).  *)
(***************************************************************************)
\* C1: every operation is all-or-nothing: whenever initialize, swap, deposit
\* or withdraw does not succeed, also when a later token instruction fails
\* after an earlier one of the same operation was applied, the pool record,
\* the reserves, the LP supply and every balance are what they were before.
AllOrNothing ==
    [][last'.res # "Ok" => UNCHANGED <<swap_info, accounts, mints>>]_vars

\* an operation failed in its second or third token instruction, after the
\* ones before it had been applied
AllOrNothingWitness ==
    /\ last.op \in {"Swap", "Deposit", "Withdraw"}
    /\ last.res \in {"InsufficientFunds", "Overflow", "MintMismatch"}
    /\ last.issued >= 2

\* C2: each of initialize, swap, deposit and withdraw ends in success or in
\* a returned error; no input makes an operation abort through a failed
\* assertion, a division by zero or an unchecked overflow or underflow.
NeverAborts == last.res # "Panic"

\* C3: once the pool record is initialized, every later operation, whether
\* it succeeds or fails, leaves the whole record unchanged.
RecordImmutable ==
    [][swap_info.is_initialized => swap_info' = swap_info]_vars

\* a withdrawal has succeeded on an initialized pool and has emptied it
RecordImmutableWitness ==
    /\ swap_info.is_initialized
    /\ last.op = "Withdraw"
    /\ last.res = "Ok"
    /\ mints[swap_info.pool_mint].supply = 0

\* C4: initialize on a record that is already initialized fails with
\* AlreadyInUse whatever its arguments and accounts are, and mints no LP
\* shares.
ReinitializeAlreadyInUse ==
    [][(swap_info.is_initialized /\ last'.op = "Initialize") =>
           /\ last'.res = "AlreadyInUse"
           /\ last'.issued = 0
           /\ UNCHANGED <<swap_info, accounts, mints>>]_vars

\* an initialize has been refused on an initialized pool
ReinitializeWitness ==
    /\ swap_info.is_initialized
    /\ last.op = "Initialize"
    /\ last.res = "AlreadyInUse"

\* C5: on a record that is not initialized swap, deposit and withdraw fail
\* with UninitializedAccount before any other check, issue no token
\* instruction and change nothing; the record becomes initialized only by a
\* successful initialize.
UninitializedRejected ==
    [][~swap_info.is_initialized =>
           /\ last'.op \in {"Swap", "Deposit", "Withdraw"} =>
                  /\ last'.res = "UninitializedAccount"
                  /\ last'.issued = 0
                  /\ UNCHANGED <<swap_info, accounts, mints>>
           /\ swap_info'.is_initialized =>
                  (last'.op = "Initialize" /\ last'.res = "Ok")]_vars

\* a deposit has been refused on a record that is not initialized
UninitializedRejectedWitness ==
    /\ ~swap_info.is_initialized
    /\ last.op = "Deposit"
    /\ last.res = "UninitializedAccount"

\* C6: there is no terminal state: in every state of an initialized pool,
\* the one after the withdrawal of all LP shares included, at least one of
\* swap, deposit and withdraw succeeds for some arguments.
NoTerminalState ==
    swap_info.is_initialized =>
        \/ \E ix \in SwapInputs : process_swap(World, ix).res = "Ok"
        \/ \E ix \in DepositInputs, overflow_checks \in BOOLEAN :
               process_deposit(World, ix, overflow_checks).res = "Ok"
        \/ \E ix \in WithdrawInputs : process_withdraw(World, ix).res = "Ok"

SwapTwoTransfers ==
    last.res = "Ok" =>
    \A ix \in SwapInputs :
        LET r      == process_swap(World, ix)
            src    == ix.swap_source_info
            dst    == ix.swap_destination_info
            result == swap_to(swap_info.amp_factor, ix.amount_in,
                              accounts[src].amount, accounts[dst].amount,
                              swap_info.fees.trade_fee_numerator,
                              swap_info.fees.trade_fee_denominator)
            out    == accounts[dst].amount - r.w.accounts[dst].amount
        IN  r.res = "Ok" =>
                /\ r.intents = <<Transfer(ix.source_info, src, ix.amount_in),
                                 Transfer(dst, ix.destination_info, out)>>
                /\ result.some
                /\ out = result.amount_swapped
                /\ r.w.accounts[src].amount = accounts[src].amount + ix.amount_in
                /\ r.w.accounts[src].amount = result.new_source_amount
                /\ r.w.accounts[dst].amount = result.new_destination_amount
                /\ r.w.accounts =
                       [accounts EXCEPT ![ix.source_info].amount = @ - ix.amount_in,
                                        ![src].amount = @ + ix.amount_in,
                                        ![dst].amount = @ - out,
                                        ![ix.destination_info].amount = @ + out]
                /\ r.w.mints = mints
                /\ r.w.swap_info = swap_info

\* a swap has succeeded with its two transfers and has paid the user
SwapTwoTransfersWitness ==
    /\ last.op = "Swap"
    /\ last.res = "Ok"
    /\ last.issued = 2

\* C9: slippage protection: a swap whose amount out is below
\* minimum_amount_out, a deposit whose LP shares are below min_mint_amount
\* and a withdraw whose amount of token a or of token b is below its minimum
\* fail with ExceededSlippage and issue no token instruction; every
\* successful operation delivers at least the stated minimum or minimums.
\* The amount an operation computes is the one it delivers when it runs
\* without a minimum.
SlippageProtection ==
    last.res = "Ok" =>
    /\ \A ix \in SwapInputs :
          LET r      == process_swap(World, ix)
              free   == process_swap(World, [ix EXCEPT !.minimum_amount_out = 0])
              out(x) == x.w.accounts[ix.destination_info].amount
                            - accounts[ix.destination_info].amount
          IN  /\ r.res = "Ok" => out(r) >= ix.minimum_amount_out
              /\ r.res = "ExceededSlippage" => (r.intents = <<>> /\ r.w = World)
              /\ (/\ ix.minimum_amount_out > 0
                  /\ free.res = "Ok"
                  /\ out(free) < ix.minimum_amount_out) =>
                     r.res = "ExceededSlippage"
    /\ \A ix \in DepositInputs, overflow_checks \in BOOLEAN :
          LET r      == process_deposit(World, ix, overflow_checks)
              free   == process_deposit(World, [ix EXCEPT !.min_mint_amount = 0],
                                        overflow_checks)
              out(x) == x.w.accounts[ix.dest_info].amount - accounts[ix.dest_info].amount
          IN  /\ r.res = "Ok" => out(r) >= ix.min_mint_amount
              /\ r.res = "ExceededSlippage" => (r.intents = <<>> /\ r.w = World)
              /\ (/\ ix.min_mint_amount > 0
                  /\ free.res = "Ok"
                  /\ out(free) < ix.min_mint_amount) =>
                     r.res = "ExceededSlippage"
    /\ \A ix \in WithdrawInputs :
          LET r    == process_withdraw(World, ix)
              free == process_withdraw(World, [ix EXCEPT !.minimum_token_a_amount = 0,
                                                         !.minimum_token_b_amount = 0])
              out_a(x) == x.w.accounts[ix.dest_token_a_info].amount
                              - accounts[ix.dest_token_a_info].amount
              out_b(x) == x.w.accounts[ix.dest_token_b_info].amount
                              - accounts[ix.dest_token_b_info].amount
          IN  /\ r.res = "Ok" => /\ out_a(r) >= ix.minimum_token_a_amount
                                 /\ out_b(r) >= ix.minimum_token_b_amount
              /\ r.res = "ExceededSlippage" => (r.intents = <<>> /\ r.w = World)
              /\ (/\ ix.minimum_token_a_amount + ix.minimum_token_b_amount > 0
                  /\ free.res = "Ok"
                  /\ \/ out_a(free) < ix.minimum_token_a_amount
                     \/ out_b(free) < ix.minimum_token_b_amount) =>
                     r.res = "ExceededSlippage"

\* a swap has been refused for its minimum, without a token instruction
SlippageProtectionWitness ==
    /\ last.op = "Swap"
    /\ last.res = "ExceededSlippage"
    /\ last.issued = 0

\* C10: a successful withdraw of `shares` from reserves (x_a, x_b) and LP
\* supply S pays a_out = floor(shares * x_a / S) and b_out = floor(shares *
\* x_b / S), without a withdraw fee, by three token instructions in this
\* order: reserve a to user for a_out, reserve b to user for b_out, burn of
\* `shares` pool tokens of the user; afterwards the reserves are x_a - a_out
\* and x_b - b_out and the LP supply is S - shares.
WithdrawProRata ==
    last.res = "Ok" =>
    \A ix \in WithdrawInputs :
        LET r      == process_withdraw(World, ix)
            shares == ix.pool_token_amount
            S      == mints[ix.pool_mint_info].supply
            x_a    == accounts[ix.token_a_info].amount
            x_b    == accounts[ix.token_b_info].amount
            a_out  == (shares * x_a) \div S
            b_out  == (shares * x_b) \div S
        IN  r.res = "Ok" =>
                /\ r.intents =
                       <<Transfer(ix.token_a_info, ix.dest_token_a_info, a_out),
                         Transfer(ix.token_b_info, ix.dest_token_b_info, b_out),
                         Burn(ix.source_info, ix.pool_mint_info, shares)>>
                /\ r.w.accounts =
                       [accounts EXCEPT ![ix.token_a_info].amount = x_a - a_out,
                                        ![ix.token_b_info].amount = x_b - b_out,
                                        ![ix.dest_token_a_info].amount = @ + a_out,
                                        ![ix.dest_token_b_info].amount = @ + b_out,
                                        ![ix.source_info].amount = @ - shares]
                /\ r.w.mints = [mints EXCEPT ![ix.pool_mint_info].supply = S - shares]
                /\ r.w.swap_info = swap_info

\* a withdraw has succeeded with its three token instructions and has left
\* a pool with shares and reserves
WithdrawProRataWitness ==
    /\ last.op = "Withdraw"
    /\ last.res = "Ok"
    /\ last.issued = 3
    /\ mints["pool_mint"].supply > 0
    /\ accounts["token_a"].amount < InitReserve - 1

\* C11: a successful deposit issues three token instructions in this order:
\* user to reserve a for token_a_amount, user to reserve b for
\* token_b_amount, mint of shares_out pool tokens to the user; afterwards
\* reserve a has grown by exactly token_a_amount and reserve b by exactly
\* token_b_amount (the fee lowers only the shares minted, never the tokens
\* taken) and the LP supply has grown by exactly shares_out.
DepositThreeIntents ==
    last.res = "Ok" =>
    \A ix \in DepositInputs, overflow_checks \in BOOLEAN :
        LET r          == process_deposit(World, ix, overflow_checks)
            S          == mints[ix.pool_mint_info].supply
            shares_out == r.w.accounts[ix.dest_info].amount - accounts[ix.dest_info].amount
        IN  r.res = "Ok" =>
                /\ r.intents =
                       <<Transfer(ix.source_a_info, ix.token_a_info, ix.token_a_amount),
                         Transfer(ix.source_b_info, ix.token_b_info, ix.token_b_amount),
                         MintTo(ix.pool_mint_info, ix.dest_info, shares_out)>>
                /\ r.w.accounts[ix.token_a_info].amount
                       = accounts[ix.token_a_info].amount + ix.token_a_amount
                /\ r.w.accounts[ix.token_b_info].amount
                       = accounts[ix.token_b_info].amount + ix.token_b_amount
                /\ r.w.accounts =
                       [accounts EXCEPT ![ix.source_a_info].amount = @ - ix.token_a_amount,
                                        ![ix.source_b_info].amount = @ - ix.token_b_amount,
                                        ![ix.token_a_info].amount = @ + ix.token_a_amount,
                                        ![ix.token_b_info].amount = @ + ix.token_b_amount,
                                        ![ix.dest_info].amount = @ + shares_out]
                /\ r.w.mints = [mints EXCEPT ![ix.pool_mint_info].supply = S + shares_out]
                /\ r.w.swap_info = swap_info

\* a deposit has succeeded with its three token instructions, has taken
\* tokens of the user and has minted pool tokens
DepositThreeIntentsWitness ==
    /\ last.op = "Deposit"
    /\ last.res = "Ok"
    /\ last.issued = 3
    /\ accounts["token_a"].amount + accounts["token_b"].amount > 2 * InitReserve
    /\ mints["pool_mint"].supply > 2 * InitReserve

\* C13: a deposit for which D1 = compute_d(x_a + amount_a, x_b + amount_b)
\* is not greater than D0 = compute_d(x_a, x_b), the deposit of (0, 0) among
\* them, fails with CalculationFailure and leaves the reserves and the LP
\* supply unchanged.
DepositWithoutGrowthFails ==
    (last.res = "Ok" /\ swap_info.is_initialized) =>
    \A ix \in DepositInputs, overflow_checks \in BOOLEAN :
        LET r   == process_deposit(World, ix, overflow_checks)
            amp == swap_info.amp_factor
            x_a == accounts[swap_info.token_a].amount
            x_b == accounts[swap_info.token_b].amount
            D0  == compute_d(amp, x_a, x_b)
            D1  == compute_d(amp, x_a + ix.token_a_amount, x_b + ix.token_b_amount)
        IN  (/\ ix.authority_info = AUTHORITY
             /\ ix.token_a_info = swap_info.token_a
             /\ ix.token_b_info = swap_info.token_b
             /\ ix.pool_mint_info = swap_info.pool_mint
             /\ amp >= 1
             /\ D0 # None
             /\ D1 # None
             /\ D1 <= D0) =>
                /\ r.res = "CalculationFailure"
                /\ r.intents = <<>>
                /\ r.w = World

(***************************************************************************)
(* The properties of the computations, checked under SpecCurve.            *)
(***************************************************************************)
\* C12: the shares a deposit mints are floor(S * (D2 - D0) / D0), where D0 =
\* compute_d(x_a, x_b), D1 = compute_d(x_a + amount_a, x_b + amount_b), each
\* side's new balance is reduced by fee_i = floor(trade_fee_numerator *
\* |new_i - floor(D1 * x_i / D0)| / trade_fee_denominator) (the trade fee)
\* and D2 = compute_d of the two reduced balances.
DepositSharesFormula ==
    [][(last'.op = "Deposit" /\ last'.res = "Ok") =>
           LET amp     == swap_info.amp_factor
               fee_num == swap_info.fees.trade_fee_numerator
               fee_den == swap_info.fees.trade_fee_denominator
               S       == mints["pool_mint"].supply
               x_a     == accounts["token_a"].amount
               x_b     == accounts["token_b"].amount
               new_a   == accounts'["token_a"].amount
               new_b   == accounts'["token_b"].amount
               D0      == compute_d(amp, x_a, x_b)
               D1      == compute_d(amp, new_a, new_b)
               fee_a   == (fee_num * Abs(new_a - (D1 * x_a) \div D0)) \div fee_den
               fee_b   == (fee_num * Abs(new_b - (D1 * x_b) \div D0)) \div fee_den
               D2      == compute_d(amp, new_a - fee_a, new_b - fee_b)
           IN  /\ mints'["pool_mint"].supply - S = (S * (D2 - D0)) \div D0
               /\ last'.fee = fee_a + fee_b]_vars

\* a deposit of one token only has succeeded on a pool with a trade fee and
\* the fee has lowered the new balances
DepositSharesFormulaWitness ==
    /\ last.op = "Deposit"
    /\ last.res = "Ok"
    /\ swap_info.fees.trade_fee_numerator > 0
    /\ last.fee > 0
    /\ mints["pool_mint"].supply < compute_d(swap_info.amp_factor,
                                             accounts["token_a"].amount,
                                             accounts["token_b"].amount)

\* C14: D never decreases across a swap: every successful swap leaves
\* reserves whose compute_d is at least the compute_d of the reserves before
\* it, whatever the reserves, the amp factor, the amount and the trade fee.
SwapNeverLowersD ==
    [][LET D_before == compute_d(swap_info.amp_factor, accounts["token_a"].amount,
                                 accounts["token_b"].amount)
           D_after  == compute_d(swap_info.amp_factor, accounts'["token_a"].amount,
                                 accounts'["token_b"].amount)
       IN  (/\ last'.op = "Swap"
            /\ last'.res = "Ok"
            /\ accounts'["token_a"].amount > 0
            /\ accounts'["token_b"].amount > 0
            /\ D_before # None
            /\ D_after # None) =>
               D_after >= D_before]_vars

\* C15: every successful swap on a pool with a non-zero trade fee strictly
\* increases compute_d of the reserves.
SwapWithFeeRaisesD ==
    [][LET D_before == compute_d(swap_info.amp_factor, accounts["token_a"].amount,
                                 accounts["token_b"].amount)
           D_after  == compute_d(swap_info.amp_factor, accounts'["token_a"].amount,
                                 accounts'["token_b"].amount)
       IN  (/\ last'.op = "Swap"
            /\ last'.res = "Ok"
            /\ swap_info.fees.trade_fee_numerator > 0
            /\ accounts'["token_a"].amount > 0
            /\ accounts'["token_b"].amount > 0
            /\ D_before # None
            /\ D_after # None) =>
               D_after > D_before]_vars

\* C16: swap conservation: after every successful swap on a pool with a zero
\* trade fee, compute_d of the reserves differs from compute_d of the
\* reserves before it by at most 1.
ZeroFeeSwapKeepsD ==
    [][LET D_before == compute_d(swap_info.amp_factor, accounts["token_a"].amount,
                                 accounts["token_b"].amount)
           D_after  == compute_d(swap_info.amp_factor, accounts'["token_a"].amount,
                                 accounts'["token_b"].amount)
       IN  (/\ last'.op = "Swap"
            /\ last'.res = "Ok"
            /\ swap_info.fees.trade_fee_numerator = 0
            /\ accounts'["token_a"].amount > 0
            /\ accounts'["token_b"].amount > 0
            /\ D_before # None
            /\ D_after # None) =>
               Abs(D_after - D_before) <= 1]_vars

\* C17: D round trip: for reserves x_a, x_b >= 1 and amp >= 1,
\* compute_y(amp, x_a, compute_d(amp, x_a, x_b)) differs from x_b by at most 1.
RoundTripY ==
    (/\ swap_info.is_initialized
     /\ accounts["token_a"].amount >= 1
     /\ accounts["token_b"].amount >= 1) =>
        LET amp == swap_info.amp_factor
            x_a == accounts["token_a"].amount
            x_b == accounts["token_b"].amount
            D   == compute_d(amp, x_a, x_b)
            y   == IF D = None THEN None ELSE compute_y(amp, x_a, D)
        IN  (D # None /\ y # None) => Abs(y - x_b) <= 1

\* C18: withdraw is the inverse of a proportional deposit: on a pool (x_a,
\* x_b, S) without fees, the deposit of (k * x_a, k * x_b) followed by the
\* withdrawal of the shares it minted pays amounts that differ from k * x_a
\* and from k * x_b by at most 1.
ProportionalDepositInverse ==
    (/\ swap_info.is_initialized
     /\ swap_info.fees.trade_fee_numerator = 0
     /\ mints["pool_mint"].supply > 0) =>
        \A k \in 1..MaxMultiple :
            LET S     == mints["pool_mint"].supply
                x_a   == accounts["token_a"].amount
                x_b   == accounts["token_b"].amount
                m     == deposit_mint_amount_u128(swap_info, TRUE, S, x_a, x_b,
                                                  k * x_a, k * x_b)
                after == PoolTokenConverter_new(S + m.mint_amount, x_a + k * x_a,
                                                x_b + k * x_b)
            IN  m.res = "Ok" =>
                    /\ Abs(token_a_rate(after, m.mint_amount) - k * x_a) <= 1
                    /\ Abs(token_b_rate(after, m.mint_amount) - k * x_b) <= 1

\* C19: bounded iteration: for positive reserves and amp >= 1 the Newton
\* loops of compute_d and compute_y stop within 256 steps by reaching
\* |next - current| <= 1, so that compute_d has a value for the reserves an
\* initialize is given and compute_d and compute_y have one for the
\* reserves of a pool.
NewtonConverges ==
    (accounts["token_a"].amount >= 1 /\ accounts["token_b"].amount >= 1) =>
        LET x_a == accounts["token_a"].amount
            x_b == accounts["token_b"].amount
        IN  IF swap_info.is_initialized
            THEN /\ compute_d(swap_info.amp_factor, x_a, x_b) # None
                 /\ compute_y(swap_info.amp_factor, x_a,
                              compute_d(swap_info.amp_factor, x_a, x_b)) # None
            ELSE \A ix \in CurveInitializeInputs :
                     compute_d(ix.amp_factor, x_a, x_b) # None

\* C20: the two swaps of tests::test_swap: on a pool with amp 85, reserves
\* (5000, 5000) and a trade fee of 6/100, a swap a -> b of 100 leaves
\* reserves (5100, 4906) and pays the user 94; a following swap b -> a of 100
\* leaves reserves (5005, 5006) and pays the user 95, so that a user who
\* started with 1000 and 1000 ends with 995 of token a and 994 of token b.
TestSwapScenario ==
    (/\ swap_info.is_initialized
     /\ swap_info.amp_factor = 85
     /\ swap_info.fees.trade_fee_numerator = 6
     /\ swap_info.fees.trade_fee_denominator = 100) =>
        /\ (/\ accounts["token_a"].amount = 5000
            /\ accounts["token_b"].amount = 5000
            /\ accounts["user_a"].amount = 1000
            /\ accounts["user_b"].amount = 1000) =>
               LET r == curve_swap(World, SwapIx(100, 0, "token_a", "token_b"))
               IN  /\ r.res = "Ok"
                   /\ r.w.accounts["token_a"].amount = 5100
                   /\ r.w.accounts["token_b"].amount = 4906
                   /\ r.w.accounts["user_a"].amount = 900
                   /\ r.w.accounts["user_b"].amount = 1000 + 94
        /\ (/\ accounts["token_a"].amount = 5100
            /\ accounts["token_b"].amount = 4906
            /\ accounts["user_a"].amount = 900
            /\ accounts["user_b"].amount = 1094) =>
               LET r == curve_swap(World, SwapIx(100, 0, "token_b", "token_a"))
               IN  /\ r.res = "Ok"
                   /\ r.w.accounts["token_a"].amount = 5005
                   /\ r.w.accounts["token_b"].amount = 5006
                   /\ r.w.accounts["user_a"].amount = 900 + 95
                   /\ r.w.accounts["user_a"].amount = 995
                   /\ r.w.accounts["user_b"].amount = 994

\* the two swaps have been made: the reserves and the user's tokens are the
\* ones the test asserts
TestSwapScenarioWitness ==
    /\ last.op = "Swap"
    /\ last.res = "Ok"
    /\ last.step = 3
    /\ accounts["token_a"].amount = 5005
    /\ accounts["token_b"].amount = 5006
    /\ accounts["user_a"].amount = 995
    /\ accounts["user_b"].amount = 994

(***************************************************************************)
(* Further properties of the processor, checked under Spec.                *)
(***************************************************************************)
\* C21: in every initialized pool record each of the four fee denominators
\* is >= 1 and each fee numerator is <= its denominator: no initialize with
\* a zero denominator or with a numerator above its denominator initializes
\* the record.
InitializedFeesWellFormed ==
    swap_info.is_initialized =>
        LET fees == swap_info.fees
        IN  /\ fees.trade_fee_denominator >= 1
            /\ fees.admin_trade_fee_denominator >= 1
            /\ fees.withdraw_fee_denominator >= 1
            /\ fees.admin_withdraw_fee_denominator >= 1
            /\ fees.trade_fee_numerator <= fees.trade_fee_denominator
            /\ fees.admin_trade_fee_numerator <= fees.admin_trade_fee_denominator
            /\ fees.withdraw_fee_numerator <= fees.withdraw_fee_denominator
            /\ fees.admin_withdraw_fee_numerator <= fees.admin_withdraw_fee_denominator

\* C22: every initialized pool record has amp >= 1: an initialize with amp 0
\* that an amp of 1 would make succeed fails with CalculationFailure, issues
\* no mint and leaves the record uninitialized.
InitializeRejectsZeroAmp ==
    [](/\ swap_info.is_initialized => swap_info.amp_factor >= 1
       /\ last.res = "Ok" =>
          \A ix \in InitializeInputs :
              LET r    == process_initialize(World, ix)
                  with == process_initialize(World, [ix EXCEPT !.amp_factor = 1])
              IN  (ix.amp_factor = 0 /\ with.res = "Ok") =>
                      /\ r.res = "CalculationFailure"
                      /\ r.intents = <<>>
                      /\ r.w = World
                      /\ ~r.w.swap_info.is_initialized
                      /\ r.w.mints[ix.pool_mint_info].supply = 0)

\* an initialize with amp 0 has just been refused and the record is still
\* uninitialized, the LP supply still 0
InitializeRejectsZeroAmpWitness ==
    /\ last.op = "Initialize"
    /\ last.res = "CalculationFailure"
    /\ last.issued = 0
    /\ ~swap_info.is_initialized
    /\ mints["pool_mint"].supply = 0

\* C23: on an initialized pool whose LP supply is 0, a withdraw with the
\* pool's authority, reserves and LP mint fails with EmptyPool for every
\* amount of pool tokens, 0 included, before any conversion of pool tokens
\* into amounts (which would fail with CalculationFailure), and issues no
\* token instruction.
WithdrawEmptyPool ==
    []((swap_info.is_initialized /\ mints[swap_info.pool_mint].supply = 0) =>
        \A ix \in WithdrawInputs :
            LET r == process_withdraw(World, ix)
            IN  (/\ ix.authority_info = AUTHORITY
                 /\ ix.token_a_info = swap_info.token_a
                 /\ ix.token_b_info = swap_info.token_b
                 /\ ix.pool_mint_info = swap_info.pool_mint) =>
                    /\ r.res = "EmptyPool"
                    /\ r.intents = <<>>
                    /\ r.w = World)

\* a withdraw has just been refused on an initialized pool without LP
\* tokens
WithdrawEmptyPoolWitness ==
    /\ swap_info.is_initialized
    /\ mints[swap_info.pool_mint].supply = 0
    /\ last.op = "Withdraw"
    /\ last.res = "EmptyPool"
    /\ last.issued = 0

AccountBinding ==
    [](swap_info.is_initialized =>
        LET reserves == {swap_info.token_a, swap_info.token_b}
            Refused(r, e) == r.res = e /\ r.intents = <<>> /\ r.w = World
            Kept(r, users) ==
                /\ \A k \in DOMAIN accounts \ (reserves \cup users) :
                       r.w.accounts[k] = accounts[k]
                /\ \A k \in DOMAIN mints \ {swap_info.pool_mint} :
                       r.w.mints[k] = mints[k]
                /\ r.w.swap_info = swap_info
            Bound(ix, r, users) ==
                /\ (/\ ix.authority_info = AUTHORITY
                    /\ \/ ix.token_a_info # swap_info.token_a
                       \/ ix.token_b_info # swap_info.token_b) =>
                       Refused(r, "IncorrectSwapAccount")
                /\ (/\ ix.authority_info = AUTHORITY
                    /\ ix.token_a_info = swap_info.token_a
                    /\ ix.token_b_info = swap_info.token_b
                    /\ ix.pool_mint_info # swap_info.pool_mint) =>
                       Refused(r, "IncorrectPoolMint")
                /\ r.res = "Ok" =>
                       /\ ix.token_a_info = swap_info.token_a
                       /\ ix.token_b_info = swap_info.token_b
                       /\ ix.pool_mint_info = swap_info.pool_mint
                       /\ Kept(r, users)
        \* the instructions without a slippage limit, and the wrong accounts
        IN  /\ \A ix \in {i \in SwapInputs : i.minimum_amount_out = 0} \cup WrongAccountSwaps :
                   \A r \in {process_swap(World, ix)} :
                       /\ (/\ ix.authority_info = AUTHORITY
                           /\ \/ ix.swap_source_info \notin reserves
                              \/ ix.swap_destination_info \notin reserves) =>
                              Refused(r, "IncorrectSwapAccount")
                       /\ r.res = "Ok" =>
                              /\ {ix.swap_source_info, ix.swap_destination_info} = reserves
                              /\ Kept(r, {ix.source_info, ix.destination_info})
                              /\ r.w.mints = mints
            \* the accounts are checked before anything is computed: the
            \* wrong accounts are tried in both builds
            /\ \A ix \in {i \in DepositInputs : i.min_mint_amount = 0} :
                   \A r \in {process_deposit(World, ix, TRUE)} :
                       Bound(ix, r, {ix.source_a_info, ix.source_b_info, ix.dest_info})
            /\ \A ix \in WrongAccountDeposits, overflow_checks \in BOOLEAN :
                   \A r \in {process_deposit(World, ix, overflow_checks)} :
                       Bound(ix, r, {ix.source_a_info, ix.source_b_info, ix.dest_info})
            /\ \A ix \in {i \in WithdrawInputs : i.minimum_token_a_amount = 0
                                                     /\ i.minimum_token_b_amount = 0}
                           \cup WrongAccountWithdraws :
                   \A r \in {process_withdraw(World, ix)} :
                       Bound(ix, r, {ix.source_info, ix.dest_token_a_info,
                                     ix.dest_token_b_info}))

\* a deposit that names a mint other than the pool's has just been refused
\* on a pool that has served a deposit or a swap before
AccountBindingWitness ==
    /\ swap_info.is_initialized
    /\ last.op = "Deposit"
    /\ last.res = "IncorrectPoolMint"
    /\ last.issued = 0
    /\ accounts["token_a"].amount + accounts["token_b"].amount > 2 * InitReserve

U128_MAX == (U64_MAX + 1) * (U64_MAX + 1) - 1

\* the u128 a build without overflow checks keeps of the value x
wrapping(x) == x % (U128_MAX + 1)

\* one turn of the fee loop: [res, balance, products], the products at
\* their exact values
width_fee_balance(fees, checks, d_0, d_1, old_balance, new_balance) ==
    LET No(ps) == [res |-> "Panic", balance |-> 0, products |-> ps]
        p_ideal       == d_1 * old_balance
        ideal_balance == wrapping(p_ideal) \div d_0
        difference    == IF ideal_balance > new_balance
                         THEN ideal_balance - new_balance
                         ELSE new_balance - ideal_balance
        p_fee == to_u128(fees.trade_fee_numerator) * difference
        fee   == wrapping(p_fee) \div to_u128(fees.trade_fee_denominator)
    IN  IF checks /\ p_ideal > U128_MAX THEN No(<<p_ideal>>)
        ELSE IF d_0 = 0 THEN No(<<p_ideal>>)
        ELSE IF checks /\ p_fee > U128_MAX THEN No(<<p_ideal, p_fee>>)
        ELSE IF to_u128(fees.trade_fee_denominator) = 0 THEN No(<<p_ideal, p_fee>>)
        ELSE IF checks /\ fee > new_balance THEN No(<<p_ideal, p_fee>>)
        ELSE [res |-> "Ok", balance |-> wrapping(new_balance - fee),
              products |-> <<p_ideal, p_fee>>]

\* the mint amount of a deposit from d_0, the balances after the fee loop
\* and d_2: [res, mint_amount, products]
width_mint_amount(checks, supply, d_0, fee_a, fee_b, d_2) ==
    LET No(e, ps) == [res |-> e, mint_amount |-> 0, products |-> ps]
        p_mint == to_u128(supply) * wrapping(d_2 - d_0)
        mint_amount_u128 == wrapping(p_mint) \div d_0
        products == fee_a.products \o fee_b.products \o <<p_mint>>
    IN  IF d_2 = None THEN No("Panic", fee_a.products \o fee_b.products)
        ELSE IF checks /\ d_2 < d_0 THEN No("Panic", fee_a.products \o fee_b.products)
        ELSE IF checks /\ p_mint > U128_MAX THEN No("Panic", products)
        ELSE IF to_u64(mint_amount_u128) = None THEN No("ConversionFailure", products)
        ELSE [res |-> "Ok", mint_amount |-> to_u64(mint_amount_u128), products |-> products]

\* the fee loop and what follows it, from d_0 and d_1
width_fee_loop(token_swap, checks, supply, old_a, old_b, new_a, new_b, d_0, d_1) ==
    LET No(e, ps) == [res |-> e, mint_amount |-> 0, products |-> ps]
    IN  IF d_0 = None \/ d_1 = None THEN No("Panic", <<>>)
        \* assert!(d_1 > d_0)
        ELSE IF ~(d_1 > d_0) THEN No("Panic", <<>>)
        ELSE CHOOSE m \in
                 {IF fee_a.res # "Ok" THEN No("Panic", fee_a.products)
                  ELSE IF fee_b.res # "Ok" THEN No("Panic", fee_a.products \o fee_b.products)
                  ELSE CHOOSE n \in {width_mint_amount(checks, supply, d_0, fee_a, fee_b, d_2) :
                                        d_2 \in {compute_d(token_swap.amp_factor,
                                                           fee_a.balance, fee_b.balance)}} : TRUE :
                     fee_a \in {width_fee_balance(token_swap.fees, checks, d_0, d_1, old_a, new_a)},
                     fee_b \in {width_fee_balance(token_swap.fees, checks, d_0, d_1, old_b, new_b)}} : TRUE

\* the LP tokens a deposit mints: [res, mint_amount, products]; every value
\* is computed once, as the code computes it
width_deposit_mint_amount(token_swap, checks, supply, balance_a, balance_b, token_a_amount, token_b_amount) ==
    LET swap_balance_a_u128 == to_u128(balance_a)
        swap_balance_b_u128 == to_u128(balance_b)
        invariant == StableSwap_new(token_swap.amp_factor)
        new_a == swap_balance_a_u128 + to_u128(token_a_amount)
        new_b == swap_balance_b_u128 + to_u128(token_b_amount)
    IN  IF invariant = None
        THEN [res |-> "CalculationFailure", mint_amount |-> 0, products |-> <<>>]
        ELSE CHOOSE m \in
                 {width_fee_loop(token_swap, checks, supply, swap_balance_a_u128,
                                 swap_balance_b_u128, new_a, new_b, d_0, d_1) :
                     d_0 \in {compute_d(invariant, swap_balance_a_u128, swap_balance_b_u128)},
                     d_1 \in {compute_d(invariant, new_a, new_b)}} : TRUE

\* process_deposit after its checks: [res, w, intents, products]
width_deposit(w, ix, checks) ==
    LET m == width_deposit_mint_amount(w.swap_info, checks,
                                       w.mints[ix.pool_mint_info].supply,
                                       w.accounts[ix.token_a_info].amount,
                                       w.accounts[ix.token_b_info].amount,
                                       ix.token_a_amount, ix.token_b_amount)
        r == IF m.res # "Ok" THEN Err(m.res, w)
             ELSE IF m.mint_amount < ix.min_mint_amount THEN Err("ExceededSlippage", w)
             ELSE invoke_all(w, deposit_intents(ix, m.mint_amount))
    IN  [res |-> r.res, w |-> r.w, intents |-> r.intents, products |-> m.products]

\* every token of a mint outside the reserve is the user's, and the mint
\* has issued as many tokens as a u64 counts
WidthAccounts(token_a_amount, token_b_amount) ==
    [InitialAccounts(token_a_amount, token_b_amount) EXCEPT
        !["user_a"].amount = U64_MAX - token_a_amount,
        !["user_b"].amount = U64_MAX - token_b_amount]

WidthMints(token_a_amount, token_b_amount) ==
    [InitialMints(token_a_amount, token_b_amount) EXCEPT
        !["mint_a"].supply = U64_MAX, !["mint_b"].supply = U64_MAX]

\* pools at the two smallest amp factors, without a trade fee and with the
\* trade fee of a quarter
WidthInitializeInputs ==
    {InitializeIx(NONCE, 1, Fees(0, 1)), InitializeIx(NONCE, 2, Fees(1, 4))}

\* deposits of nothing, of one token and of as many tokens as a u64 counts
WidthDepositInputs ==
    {DepositIx(a, b, 0) : a \in {0, 1, U64_MAX}, b \in {0, 1, U64_MAX}}

WidthInit ==
    /\ swap_info = EmptySwapInfo
    /\ \E a \in 1..U64_MAX, b \in 1..U64_MAX :
          /\ accounts = WidthAccounts(a, b)
          /\ mints = WidthMints(a, b)
    /\ last = [op |-> "None", res |-> "Ok", issued |-> 0, products |-> <<>>]

\* an instruction with its outcome r; last also keeps the products the
\* computation has formed
WidthRun(op, r, products) ==
    LET w == do_process_instruction(World, r)
    IN  /\ swap_info' = w.swap_info
        /\ accounts' = w.accounts
        /\ mints' = w.mints
        /\ last' = [op |-> op, res |-> r.res, issued |-> Len(r.intents),
                    products |-> products]

WidthInitialize ==
    /\ ~swap_info.is_initialized
    /\ \E ix \in WidthInitializeInputs :
          WidthRun("Initialize", process_initialize(World, ix), <<>>)

WidthDeposit ==
    /\ swap_info.is_initialized
    /\ \E ix \in WidthDepositInputs, overflow_checks \in BOOLEAN :
          \E r \in {width_deposit(World, ix, overflow_checks)} :
              WidthRun("Deposit", r, r.products)

WidthNext == WidthInitialize \/ WidthDeposit

SpecWidth == WidthInit /\ [][WidthNext]_vars

\* C27: every product the computation of a deposit forms (the ideal balance,
\* the fee and the mint amount, each before its division) fits a u128, for
\* every pool and every deposit whose amounts are u64 values.
DepositProductsFitU128 ==
    [][last'.op = "Deposit" =>
          \A i \in DOMAIN last'.products : last'.products[i] <= U128_MAX]_vars


(***************************************************************************)
(* The pool tokens and their holders, checked under Spec.                  *)
(***************************************************************************)

\* deposits into the account of the pool's first holder and into the account
\* of a later depositor, and withdrawals from either
LPDepositInputs ==
    {[DepositIx(a, b, 0) EXCEPT !.dest_info = d] :
        a \in 0..1, b \in 0..1, d \in {"pool_token", "user_pool"}}

LPWithdrawInputs ==
    {WithdrawIx(n, 0, 0, src) : n \in 1..2, src \in {"pool_token", "user_pool"}}

\* the accounts that hold pool tokens
LPHolders(w) == {k \in DOMAIN w.accounts : w.accounts[k].mint = "pool_mint"}

RECURSIVE SumAmounts(_, _)
SumAmounts(w, keys) ==
    IF keys = {} THEN 0
    ELSE LET k == CHOOSE x \in keys : TRUE
         IN  w.accounts[k].amount + SumAmounts(w, keys \ {k})

LPSupply(w) == w.mints["pool_mint"].supply

LPSupplyHeld(w) == LPSupply(w) = SumAmounts(w, LPHolders(w))

\* the amount of the token instructions of one kind among intents
RECURSIVE IntentAmount(_, _)
IntentAmount(intents, kind) ==
    IF intents = <<>> THEN 0
    ELSE (IF Head(intents).kind = kind THEN Head(intents).amount ELSE 0)
             + IntentAmount(Tail(intents), kind)

\* the outcome r of an instruction run on w leaves the supply equal to what
\* the holders have, issues token instructions of the kinds given only, and
\* changes the supply by what it minted and burned
LPKept(w, r, kinds) ==
    LET after == do_process_instruction(w, r)
    IN  /\ LPSupplyHeld(after)
        /\ \A i \in DOMAIN r.intents : r.intents[i].kind \in kinds
        /\ r.res = "Ok" =>
              LPSupply(after) = LPSupply(w) + IntentAmount(r.intents, "MintTo")
                                            - IntentAmount(r.intents, "Burn")
        /\ r.res # "Ok" => after = w

\* C28: in every state the supply of the pool mint is the sum of the pool
\* tokens of its holders, and stays so after any instruction, also after a
\* deposit into a second holder's account and a withdrawal that follows it;
\* initialize and deposit issue no burn, withdraw issues no mint, swap
\* neither, and a successful instruction changes the supply by exactly what
\* it minted or burned.
LPAccounting ==
    [](/\ LPSupplyHeld(World)
       /\ \A ix \in InitializeInputs :
             \A r \in {process_initialize(World, ix)} : LPKept(World, r, {"MintTo"})
       /\ \A ix \in {i \in SwapInputs : i.minimum_amount_out = 0 /\ i.amount_in = 1} :
             \A r \in {process_swap(World, ix)} : LPKept(World, r, {"Transfer"})
       /\ \A ix \in LPDepositInputs, overflow_checks \in BOOLEAN :
             \A r \in {process_deposit(World, ix, overflow_checks)} :
                 /\ LPKept(World, r, {"Transfer", "MintTo"})
                 /\ r.res = "Ok" =>
                       \A wx \in LPWithdrawInputs :
                           \A r2 \in {process_withdraw(r.w, wx)} :
                               LPKept(r.w, r2, {"Transfer", "Burn"})
       /\ \A wx \in LPWithdrawInputs :
             \A r \in {process_withdraw(World, wx)} :
                 LPKept(World, r, {"Transfer", "Burn"}))

\* pool tokens of the first holder are in circulation, a withdrawal has just
\* succeeded, and a deposit into the second holder's account followed by a
\* withdrawal from it succeed from here
LPAccountingWitness ==
    /\ last.op = "Withdraw" /\ last.res = "Ok"
    /\ accounts["pool_token"].amount > 0
    /\ \E ix \in LPDepositInputs, wx \in LPWithdrawInputs :
          \E r \in {process_deposit(World, ix, TRUE)} :
              /\ ix.dest_info = "user_pool" /\ wx.source_info = "user_pool"
              /\ r.res = "Ok"
              /\ r.w.accounts["user_pool"].amount > 0
              /\ process_withdraw(r.w, wx).res = "Ok"


(***************************************************************************)
(* Further properties of the computations, checked under SpecCurve.        *)
(***************************************************************************)

\* C29: for the amp factor and the positive reserves of a pool, the
\* invariant compute_d gives is the sum of the reserves when the reserves are
\* equal and strictly below their sum when they differ.
InvariantBelowSum ==
    (/\ swap_info.is_initialized
     /\ accounts["token_a"].amount >= 1 /\ accounts["token_b"].amount >= 1) =>
        LET x_a == accounts["token_a"].amount
            x_b == accounts["token_b"].amount
            D   == compute_d(StableSwap_new(swap_info.amp_factor), to_u128(x_a), to_u128(x_b))
        IN  D # None =>
                IF x_a = x_b THEN D = x_a + x_b ELSE D < x_a + x_b


\* C30: a swap that succeeds pays gross_out - fee, where gross_out is the
\* destination reserve less compute_y of the source reserve after the swap
\* and fee is gross_out * fee_numerator / fee_denominator rounded up (0 for a
\* fee numerator of 0); so fee * fee_denominator >= gross_out * fee_numerator,
\* and the destination reserve goes down by what is paid, the fee staying
\* in it.
SwapPaysGrossLessFeeRoundedUp ==
    swap_info.is_initialized =>
        \A ix \in CurveSwapInputs :
            \A r \in {curve_swap(World, ix)} :
                LET amp       == swap_info.amp_factor
                    fee_num   == swap_info.fees.trade_fee_numerator
                    fee_den   == swap_info.fees.trade_fee_denominator
                    x         == accounts[ix.swap_source_info].amount
                    y_reserve == accounts[ix.swap_destination_info].amount
                    gross_out == y_reserve - compute_y(amp, x + ix.amount_in,
                                                       compute_d(amp, x, y_reserve))
                    fee       == IF fee_num > 0
                                 THEN (gross_out * fee_num + fee_den - 1) \div fee_den
                                 ELSE 0
                IN  r.res = "Ok" =>
                        /\ r.intents[2].amount = gross_out - fee
                        /\ fee * fee_den >= gross_out * fee_num
                        /\ r.w.accounts[ix.swap_destination_info].amount
                               = y_reserve - (gross_out - fee)


\* C31: a swap whose gross output (the destination reserve less compute_y of
\* the source reserve after the swap) is below 1 fails with an error and
\* issues no token instruction, and so does every swap of amount_in = 0; a
\* swap that succeeds has a gross output of at least 1.
SwapWithoutOutputFails ==
    swap_info.is_initialized =>
        \A ix \in CurveSwapInputs :
            \A r \in {curve_swap(World, ix)} :
                LET amp       == swap_info.amp_factor
                    x         == accounts[ix.swap_source_info].amount
                    y_reserve == accounts[ix.swap_destination_info].amount
                    d         == compute_d(amp, x, y_reserve)
                    new_y     == compute_y(amp, x + ix.amount_in, d)
                    defined   == d # None /\ new_y # None
                IN  /\ (defined /\ y_reserve - new_y < 1) =>
                           r.res = "CalculationFailure" /\ r.intents = <<>> /\ r.w = World
                    /\ ix.amount_in = 0 =>
                           r.res # "Ok" /\ r.intents = <<>> /\ r.w = World
                    /\ r.res = "Ok" => defined /\ y_reserve - new_y >= 1

\* C32: compute_d on a zero reserve does not abort: compute_d(0, 0) is 0,
\* compute_d(x, 0) and compute_d(0, x) have a value or have none together, and
\* in a pool with an empty reserve neither a swap nor a deposit (the call
\* sites of compute_d after initialize) ends in a panic: each ends Ok or with
\* an error of the program.
ZeroReserveFailsCleanly ==
    LET amp == swap_info.amp_factor
        x_a == accounts["token_a"].amount
        x_b == accounts["token_b"].amount
    IN  (swap_info.is_initialized /\ (x_a = 0 \/ x_b = 0)) =>
            /\ compute_d(amp, 0, 0) = 0
            /\ (compute_d(amp, x_a, x_b) = None) = (compute_d(amp, x_b, x_a) = None)
            /\ \A ix \in CurveSwapInputs :
                   \A r \in {curve_swap(World, ix)} : r.res # "Panic"
            /\ \A ix \in CurveDepositInputs, overflow_checks \in BOOLEAN :
                   \A r \in {curve_deposit(World, ix, overflow_checks)} : r.res # "Panic"

(***************************************************************************)
(* Further properties of the instructions, checked under Spec.             *)
(***************************************************************************)
\* the accounts that hold a token of the pool: its reserve, the user's
\* account, its mint and its admin fee account
Underlying ==
    {[reserve |-> "token_a", user |-> "user_a", mint |-> "mint_a", admin |-> "admin_fee_a"],
     [reserve |-> "token_b", user |-> "user_b", mint |-> "mint_b", admin |-> "admin_fee_b"]}

\* C33: no instruction creates or destroys a token of the pool: for each of
\* the two tokens the reserve and the user's account together hold after
\* every instruction what they held before it, the supply of the token's mint
\* stays as it is and the admin fee account stays as it is, empty.
TokenConservation ==
    [][\A t \in Underlying :
          /\ accounts'[t.reserve].amount + accounts'[t.user].amount
                 = accounts[t.reserve].amount + accounts[t.user].amount
          /\ mints'[t.mint] = mints[t.mint]
          /\ accounts'[t.admin] = accounts[t.admin]
          /\ accounts'[t.admin].amount = 0]_vars

\* a withdrawal has paid the user out of both reserves, after a swap or a
\* deposit has changed them, and each token is still all there
TokenConservationWitness ==
    /\ last.op = "Withdraw" /\ last.res = "Ok" /\ last.issued = 3
    /\ accounts["user_a"].amount > UserFunds
    /\ accounts["token_b"].amount > InitReserve + 1
    /\ \A t \in Underlying :
          /\ accounts[t.reserve].amount + accounts[t.user].amount = mints[t.mint].supply
          /\ accounts[t.admin].amount = 0

\* C34: no successful swap, deposit or withdrawal dilutes the pool tokens:
\* with D the compute_d of the reserves and S the supply of the pool mint
\* before the instruction and D', S' after it, D' * S >= D * S'.
NoDilution ==
    [][(/\ swap_info.is_initialized
        /\ last'.res = "Ok"
        /\ last'.op \in {"Swap", "Deposit", "Withdraw"}) =>
           LET amp      == swap_info.amp_factor
               D_before == compute_d(amp, accounts["token_a"].amount,
                                     accounts["token_b"].amount)
               D_after  == compute_d(amp, accounts'["token_a"].amount,
                                     accounts'["token_b"].amount)
           IN  (D_before # None /\ D_after # None) =>
                   D_after * mints["pool_mint"].supply
                       >= D_before * mints'["pool_mint"].supply]_vars

\* C35: while pool tokens are outstanding both reserves of an initialized
\* pool hold at least 1: no swap pays out the whole of its destination
\* reserve and no withdrawal of a part of the pool tokens empties a reserve.
ReservesStayPositive ==
    []((swap_info.is_initialized /\ mints["pool_mint"].supply > 0) =>
           /\ accounts["token_a"].amount >= 1
           /\ accounts["token_b"].amount >= 1)

\* C36: the subtractions of a deposit's share computation stay at or above
\* zero: in an initialized pool whose trade fee is at most 1, for every
\* deposit with d_1 > d_0 > 0, one that adds much to one side only included,
\* the fee of each side is at most the side's new balance (the fee loop
\* yields a balance) and d_2, where it has a value, is at least d_0.
DepositSubtractionsStayPositive ==
    LET fees == swap_info.fees
        amp  == swap_info.amp_factor
        x_a  == accounts["token_a"].amount
        x_b  == accounts["token_b"].amount
    IN  (/\ swap_info.is_initialized
         /\ fees.trade_fee_denominator > 0
         /\ fees.trade_fee_numerator <= fees.trade_fee_denominator) =>
            \A ix \in CurveDepositInputs :
                \A d_0 \in {compute_d(amp, x_a, x_b)} :
                \A d_1 \in {compute_d(amp, x_a + ix.token_a_amount, x_b + ix.token_b_amount)} :
                    (d_0 # None /\ d_1 # None /\ d_0 > 0 /\ d_1 > d_0) =>
                        \A new_a \in {deposit_fee_balance(fees, d_0, d_1, x_a,
                                                          x_a + ix.token_a_amount)} :
                        \A new_b \in {deposit_fee_balance(fees, d_0, d_1, x_b,
                                                          x_b + ix.token_b_amount)} :
                            /\ new_a # None
                            /\ new_b # None
                            /\ \A d_2 \in {compute_d(amp, new_a, new_b)} :
                                   d_2 # None => d_2 >= d_0

\* what the token program answers when it refuses a token instruction
TokenProgramFailures ==
    {"InvalidAccountData", "InsufficientFunds", "MintMismatch", "OwnerMismatch", "Overflow"}

\* C37: checks come before token instructions: a swap, a deposit or a
\* withdrawal that ends with an error of its own (any result other than Ok
\* and other than a refusal of the token program) has issued no token
\* instruction and leaves the accounts as they were, and process_initialize,
\* whatever it is given, writes the record only when its mint_to has been
\* issued and has succeeded.
ValidateThenAct ==
    [][/\ (/\ last'.op \in {"Swap", "Deposit", "Withdraw"}
           /\ last'.res \notin TokenProgramFailures \cup {"Ok"}) =>
              last'.issued = 0 /\ accounts' = accounts /\ mints' = mints
       /\ last'.op = "Initialize" =>
              \A ix \in InitializeInputs :
                  \A r \in {process_initialize(World, ix)} :
                      r.w.swap_info # swap_info =>
                          /\ r.res = "Ok"
                          /\ Len(r.intents) = 1
                          /\ r.intents[1].kind = "MintTo"
                          /\ r.w.mints["pool_mint"].supply
                                 = mints["pool_mint"].supply + r.intents[1].amount]_vars

\* a withdrawal has been refused for its slippage limit on a pool it could
\* have paid from, without a token instruction
ValidateThenActWitness ==
    /\ swap_info.is_initialized
    /\ last.op = "Withdraw"
    /\ last.res = "ExceededSlippage"
    /\ last.issued = 0
    /\ accounts["token_a"].amount > 0
    /\ accounts["pool_token"].amount > 0

\* C38: a round trip gives no profit: in an initialized pool a successful
\* swap of dx from one side to the other that pays out1, followed at once by
\* a successful swap of out1 back that pays out2, has out2 <= dx, whatever
\* the reserves, the trade fee and dx.
NoRoundTripProfit ==
    swap_info.is_initialized =>
        \A there \in CurveSwapInputs :
            \A r1 \in {curve_swap(World, there)} :
                r1.res = "Ok" =>
                    \A out1 \in {r1.intents[2].amount} :
                    \A r2 \in {curve_swap(r1.w, SwapIx(out1, 0, there.swap_destination_info,
                                                       there.swap_source_info))} :
                        r2.res = "Ok" => r2.intents[2].amount <= there.amount_in

====
